---------------------------- MODULE Spec2Model ----------------------------
(***************************************************************************)
(* Model of the deadlock backend: the Redis-backed matchmaking queue       *)
(* (RedisService), the scheduler and disconnect handling                   *)
(* (MatchmakingService), the submission arbitration (GameService) and the  *)
(* connection layer (DeadlockSocketServer).                                *)
(*                                                                         *)
(* Every `await` of the TypeScript source is a step boundary: one action   *)
(* is one Redis command (or one Lua script / MULTI block, which Redis      *)
(* runs atomically) followed by the synchronous code that runs until the   *)
(* next await.                                                             *)
(***************************************************************************)
EXTENDS Integers, Sequences, FiniteSets, TLC

(***************************************************************************)
(* Universe                                                                *)
(***************************************************************************)
Users == {"u1", "u2", "u3", "u4"}
Sockets == {"s1", "s2", "s3", "s4", "s5"}
\* The authenticated user of a connection (socket.user.id): u1 owns two
\* connections (two tabs, or a reload), u2, u3 and u4 own one each.
SocketUser(s) ==
    IF s = "s2" THEN "u2" ELSE IF s = "s4" THEN "u3" ELSE IF s = "s5" THEN "u4" ELSE "u1"

\* Number of match ids (uuidv4) the model hands out.
MaxMatches == 2
MatchIds == 1..MaxMatches

NoUser == "none"
NoSocket == "none"
BotSocket == "bot"
NoMatchId == 0

\* bot.id of the BotPlayer created for match m
BotId(m) == IF m = 1 THEN "bot1" ELSE IF m = 2 THEN "bot2" ELSE "bot3"
IsBot(u) == u \notin Users /\ u # NoUser

\* Ratings (AuthUser.elo) the users may carry.
EloSet == {800, 1200, 1600}
BotElo == 1000

VARIABLES
    queue,        \* Redis list queue:global, a sequence of QueueEntry
    match,        \* Redis hashes match:<id>
    userMatch,    \* Redis keys user:<id>:match
    userSocket,   \* Redis keys user:<id>:socket
    sock,         \* socket.io server-side sockets: connected, data.currentMatchId, rooms
    userElo,      \* AuthUser.elo of each user
    nextMatchId,  \* next fresh match id
    isProcessing, \* MatchmakingService.isProcessing
    tick,         \* the running processQueue invocation
    req,          \* per socket: the running client request handler
    disc,         \* per socket: the running disconnect handler
    conn,         \* per socket: the running connection handler
    timer,        \* per match: the setMatchTimeout callback
    cleanupTimers,\* per match: GameService.cleanupTimers / the cleanup callback
    activeBots,   \* MatchmakingService.activeBots (match ids holding a BotPlayer)
    bot,          \* per match: the BotPlayer created for it
    events,       \* per socket: the set of other events emitted to it
    gameOver,     \* per socket: the game_over events delivered to it
    db,           \* per match: the saveMatchToDatabase calls made
    nWins,        \* per match: number of setMatchWinner calls that returned true
    finishWrites, \* per match: number of writes that set status to finished
    nReq          \* number of client requests received, counted up to MaxRequests

vars == <<queue, match, userMatch, userSocket, sock, userElo, nextMatchId,
          isProcessing, tick, req, disc, conn, timer, cleanupTimers,
          activeBots, bot, events, gameOver, db, nWins, finishWrites, nReq>>

(***************************************************************************)
(* Records                                                                 *)
(***************************************************************************)
\* An absent Redis hash: HGETALL returns no fields.
NoMatch ==
    [hasId |-> FALSE, p1 |-> NoUser, p1sock |-> NoSocket, p1elo |-> 0,
     p2 |-> NoUser, p2sock |-> NoSocket, p2elo |-> 0,
     status |-> "", winnerId |-> NoUser, finishedAt |-> FALSE]

QueueEntry(u, s, e) == [userId |-> u, socketId |-> s, elo |-> e, aged |-> FALSE]

IdleReq ==
    [op |-> "none", pc |-> "done", mid |-> NoMatchId, snap |-> NoMatch,
     winnerId |-> NoUser, resp |-> "none", late |-> NoUser, position |-> 0]

IdleDisc == [pc |-> "done", mid |-> NoMatchId, snap |-> NoMatch, winnerId |-> NoUser]

IdleTick ==
    [pc |-> "idle", queueLength |-> 0, snapshot |-> <<>>, i |-> 0,
     players |-> <<>>, mid |-> NoMatchId]

IdleConn == [pc |-> "done", mid |-> NoMatchId]

\* BotPlayer: not created, or created with its rolled outcome
\* failurePoint of a bot that is not rolled to fail (null)
NoFailurePoint == 0

\* A BotPlayer: its fields, the checkpoint timeouts still pending (indices of
\* the checkpoint list), the delayed completion timeouts still pending, the
\* opponent_progress events it emitted and the results it passed to onComplete
NoBot ==
    [state |-> "none", shouldFail |-> FALSE, failurePoint |-> NoFailurePoint,
     progress |-> 0, isStopped |-> FALSE, timeouts |-> {},
     completions |-> <<>>, emitted |-> <<>>, completed |-> <<>>]

AllIds == Users \cup {BotId(m) : m \in MatchIds}

\* A socket id is used by one connection only: used stays TRUE after it closes.
NoSock == [used |-> FALSE, connected |-> FALSE, currentMatchId |-> NoMatchId, rooms |-> {}]


(***************************************************************************)
(* RedisService: queue operations                                          *)
(***************************************************************************)
isUserInQueue(q, u) == \E i \in 1..Len(q) : q[i].userId = u

\* 1-indexed position of the first entry of u, -1 when absent
getQueuePosition(q, u) ==
    IF isUserInQueue(q, u)
    THEN CHOOSE i \in 1..Len(q) :
            /\ q[i].userId = u
            /\ \A j \in 1..(i - 1) : q[j].userId # u
    ELSE -1

RemoveAt(q, i) == SubSeq(q, 1, i - 1) \o SubSeq(q, i + 1, Len(q))

\* The Lua script of dequeue: LREM of the first entry whose userId matches.
dequeue(q, u) ==
    IF isUserInQueue(q, u) THEN RemoveAt(q, getQueuePosition(q, u)) ELSE q

\* MULTI { LPOP; LPOP }: the entries popped, and the list left behind.
popTwoPlayersPopped(q) == SubSeq(q, 1, IF Len(q) < 2 THEN Len(q) ELSE 2)
popTwoPlayersRest(q) == SubSeq(q, (IF Len(q) < 2 THEN Len(q) ELSE 2) + 1, Len(q))

(***************************************************************************)
(* RedisService: match operations                                          *)
(***************************************************************************)
\* HSET of createMatch: the hash written for a new match.
MatchState(a, asock, aelo, b, bsock, belo) ==
    [hasId |-> TRUE, p1 |-> a, p1sock |-> asock, p1elo |-> aelo,
     p2 |-> b, p2sock |-> bsock, p2elo |-> belo,
     status |-> "active", winnerId |-> NoUser, finishedAt |-> FALSE]

\* getMatch: null (NoMatch) when the hash has no id field.
getMatch(rec) == IF rec.hasId THEN rec ELSE NoMatch

\* setMatchWinner as a plain write that does not look at the status
setMatchWinnerUnchecked(rec, w) ==
    [won |-> TRUE,
     rec |-> [rec EXCEPT !.status = "finished", !.winnerId = w, !.finishedAt = TRUE]]

\* The Lua script of setMatchWinner: check-and-set on status.  won is the
\* script's result (1 or 0), rec the hash it leaves behind.
setMatchWinner(rec, w) ==
    IF rec.status = "active"
    THEN [won |-> TRUE,
          rec |-> [rec EXCEPT !.status = "finished", !.winnerId = w, !.finishedAt = TRUE]]
    ELSE [won |-> FALSE, rec |-> rec]

\* a status update that rewrites the whole outcome of the match
updateMatchStatusResetsWinner(rec, st) == [rec EXCEPT !.status = st, !.winnerId = NoUser]

\* HSET key status <status>: unconditional, creates the hash when absent.
updateMatchStatus(rec, st) == [rec EXCEPT !.status = st]

\* an opponent lookup that answers the asking player
OtherIsSelf(rec, u) == u

Other(rec, u) == IF rec.p1 = u THEN rec.p2 ELSE rec.p1

(***************************************************************************)
(* GameService.calculateEloChange                                          *)
(*   expectedScore = 1 / (1 + 10^((loserElo - winnerElo) / 400))           *)
(*   Math.round(32 * (1 - expectedScore))                                  *)
(* Ratings are drawn from EloSet, whose differences are multiples of 400,  *)
(* so 10^(d/400) is the rational Num/Den below and the rounding is exact.  *)
(***************************************************************************)
K == 32

RECURSIVE Pow10(_)
Pow10(n) == IF n = 0 THEN 1 ELSE 10 * Pow10(n - 1)

\* 10^((loserElo - winnerElo)/400) as a fraction PowNum/PowDen
PowNum(winnerElo, loserElo) ==
    IF loserElo >= winnerElo THEN Pow10((loserElo - winnerElo) \div 400) ELSE 1
PowDen(winnerElo, loserElo) ==
    IF loserElo >= winnerElo THEN 1 ELSE Pow10((winnerElo - loserElo) \div 400)

\* Math.round(x) for x = n/d >= 0 is floor(x + 1/2) = (2n + d) \div 2d
RoundDiv(n, d) == (2 * n + d) \div (2 * d)

\* the expected score taken from the loser's side
calculateEloChangeSwapped(winnerElo, loserElo) ==
    RoundDiv(K * PowNum(loserElo, winnerElo),
             PowDen(loserElo, winnerElo) + PowNum(loserElo, winnerElo))

\* K * (1 - 1/(1 + N/D)) = K * N / (D + N)
calculateEloChange(winnerElo, loserElo) ==
    RoundDiv(K * PowNum(winnerElo, loserElo),
             PowDen(winnerElo, loserElo) + PowNum(winnerElo, loserElo))

(***************************************************************************)
(* socket.io helpers                                                       *)
(***************************************************************************)
\* io.sockets.sockets.get(id): only connected sockets are found
Live(s) == s \in Sockets /\ sock[s].connected

\* sockets reached by io.to(room).emit
InRoom(m) == {s \in Sockets : sock[s].connected /\ m \in sock[s].rooms}

GameOverEvent(m, w, reason, elo) ==
    [matchId |-> m, winnerId |-> w, reason |-> reason, newElo |-> elo]

\* socket.emit of an event other than game_over
Emit(ev, s, e) ==
    [x \in Sockets |-> IF x = s /\ sock[s].connected THEN ev[x] \cup {e} ELSE ev[x]]

\* deliver event ev to every socket of the set S (a disconnected socket gets nothing)
Deliver(log, S, ev) ==
    [s \in Sockets |-> IF s \in S /\ sock[s].connected THEN Append(log[s], ev) ELSE log[s]]

(***************************************************************************)
(* Client requests: a connected socket with no request in flight sends     *)
(* one.  A request handler keeps running after its socket disconnects.     *)
(***************************************************************************)
CanSend(s) == sock[s].connected /\ req[s].pc = "done"

\* Number of client requests the model counts.
MaxRequests == 3
Received(n) == IF n < MaxRequests THEN n + 1 ELSE n

\* the handler returns: only the request and its response are remembered
Finish(r, resp) == [IdleReq EXCEPT !.op = r.op, !.resp = resp, !.late = r.late]

(***************************************************************************)
(* GameService.handleSubmission                                            *)
(***************************************************************************)
\* The winner of a match that SocketUser(s) has already lost to a completely
\* processed accepted submission (its result was persisted, the last await of
\* handlePotentialWin), NoUser when there is none: a submission arriving now
\* arrives after that win.
LostTo(s) ==
    IF \E m \in MatchIds : db[m] # <<>> /\ db[m][1].result = "won"
                             /\ db[m][1].loserId = SocketUser(s)
    THEN db[CHOOSE m \in MatchIds : db[m] # <<>> /\ db[m][1].result = "won"
                                     /\ db[m][1].loserId = SocketUser(s)][1].winnerId
    ELSE NoUser

\* submit_code arrives: socket.data.currentMatchId is read, getMatch is issued
SubmitStart(s) ==
    /\ CanSend(s)
    /\ nReq' = Received(nReq)
    /\ req' = [req EXCEPT ![s] =
                 IF sock[s].currentMatchId = NoMatchId
                 THEN Finish([IdleReq EXCEPT !.op = "submit", !.late = LostTo(s)],
                             "NOT_IN_MATCH")
                 ELSE [IdleReq EXCEPT !.op = "submit", !.pc = "getMatch",
                                      !.mid = sock[s].currentMatchId,
                                      !.late = LostTo(s)]]
    /\ UNCHANGED <<queue, match, userMatch, userSocket, sock, userElo, nextMatchId,
                   isProcessing, tick, disc, conn, timer, cleanupTimers, activeBots, bot, events,
                   gameOver, db, nWins, finishWrites>>

\* handleSubmission without the "Match is not active" validation
SubmitGetMatchAnyStatus(s) ==
    /\ req[s].op = "submit" /\ req[s].pc = "getMatch"
    /\ LET m == getMatch(match[req[s].mid]) IN
         req' = [req EXCEPT ![s] =
                   IF ~m.hasId THEN Finish(@, "MATCH_NOT_FOUND")
                   ELSE [@ EXCEPT !.pc = "judge", !.snap = m]]
    /\ UNCHANGED <<queue, match, userMatch, userSocket, sock, userElo, nextMatchId,
                   isProcessing, tick, disc, conn, timer, cleanupTimers, activeBots, bot, events,
                   gameOver, db, nWins, finishWrites, nReq>>

\* getMatch returns; the match is validated and the judge is called
SubmitGetMatch(s) ==
    /\ req[s].op = "submit" /\ req[s].pc = "getMatch"
    /\ LET m == getMatch(match[req[s].mid]) IN
         req' = [req EXCEPT ![s] =
                   IF ~m.hasId THEN Finish(@, "MATCH_NOT_FOUND")
                   ELSE IF m.status # "active" THEN Finish(@, "MATCH_NOT_ACTIVE")
                   ELSE [@ EXCEPT !.pc = "judge", !.snap = m]]
    /\ UNCHANGED <<queue, match, userMatch, userSocket, sock, userElo, nextMatchId,
                   isProcessing, tick, disc, conn, timer, cleanupTimers, activeBots, bot, events,
                   gameOver, db, nWins, finishWrites, nReq>>

\* Number of test cases of a problem.
MaxTestCases == 3

\* What one runSingleTest call gives: the status description of the run, or
\* "Judge0 Error" when the call to the sandbox throws (service error, timeout)
TestOutcomes ==
    {"Accepted", "Wrong Answer", "Compilation Error", "Runtime Error (NZEC)",
     "Time Limit Exceeded", "Judge0 Error"}

\* the outcomes of the test cases of one submission, in order
TestRuns == UNION {[1..n -> TestOutcomes] : n \in 1..MaxTestCases}

passedCount(r) == Cardinality({i \in DOMAIN r : r[i] = "Accepted"})

\* executeCode counting only the test cases the sandbox answered
executeCodeSkippingErrors(r) ==
    LET answered == {i \in DOMAIN r : r[i] # "Judge0 Error"} IN
    IF passedCount(r) = Cardinality(answered) THEN "accepted"
    ELSE IF \E i \in DOMAIN r : r[i] = "Compilation Error" THEN "compile_error"
    ELSE IF \E i \in DOMAIN r : r[i] = "Runtime Error (NZEC)" THEN "runtime_error"
    ELSE IF \E i \in DOMAIN r : r[i] = "Time Limit Exceeded" THEN "time_limit"
    ELSE "wrong_answer"

\* JudgeService.executeCode: the overall status of a submission
executeCode(r) ==
    IF passedCount(r) = Len(r) THEN "accepted"
    ELSE IF \E i \in DOMAIN r : r[i] = "Compilation Error" THEN "compile_error"
    ELSE IF \E i \in DOMAIN r : r[i] = "Runtime Error (NZEC)" THEN "runtime_error"
    ELSE IF \E i \in DOMAIN r : r[i] = "Time Limit Exceeded" THEN "time_limit"
    ELSE IF \E i \in DOMAIN r : r[i] = "Judge0 Error" THEN "runtime_error"
    ELSE "wrong_answer"

\* getProblemById and judgeService.executeCode return; verdict is the
\* status executeCode computed, or PROBLEM_NOT_FOUND.  Only "accepted" goes
\* on to handlePotentialWin.
Verdicts == {executeCode(r) : r \in TestRuns} \cup {"PROBLEM_NOT_FOUND"}

SubmitJudge(s, verdict) ==
    /\ req[s].op = "submit" /\ req[s].pc = "judge"
    /\ req' = [req EXCEPT ![s] =
                 IF verdict = "accepted" THEN [@ EXCEPT !.pc = "setWinner"]
                 ELSE Finish(@, verdict)]
    /\ UNCHANGED <<queue, match, userMatch, userSocket, sock, userElo, nextMatchId,
                   isProcessing, tick, disc, conn, timer, cleanupTimers, activeBots, bot, events,
                   gameOver, db, nWins, finishWrites, nReq>>

(***************************************************************************)
(* GameService.handlePotentialWin                                          *)
(***************************************************************************)
\* handlePotentialWin going on to declare the win whatever setMatchWinner returned
WinSetWinnerIgnoringResult(s) ==
    /\ req[s].op = "submit" /\ req[s].pc = "setWinner"
    /\ LET mid == req[s].mid
           r == setMatchWinner(match[mid], SocketUser(s))
       IN /\ match' = [match EXCEPT ![mid] = r.rec]
          /\ nWins' = [nWins EXCEPT ![mid] = IF r.won THEN @ + 1 ELSE @]
          /\ finishWrites' = [finishWrites EXCEPT ![mid] = IF r.won THEN @ + 1 ELSE @]
          /\ req' = [req EXCEPT ![s] = [@ EXCEPT !.pc = "finalMatch", !.winnerId = SocketUser(s)]]
    /\ UNCHANGED <<queue, userMatch, userSocket, sock, userElo, nextMatchId,
                   isProcessing, tick, disc, conn, timer, cleanupTimers, activeBots, bot, events,
                   gameOver, db, nReq>>

\* redisService.setMatchWinner(matchId, user.id) runs
WinSetWinner(s) ==
    /\ req[s].op = "submit" /\ req[s].pc = "setWinner"
    /\ LET mid == req[s].mid
           r == setMatchWinner(match[mid], SocketUser(s))
           won == r.won
       IN /\ match' = [match EXCEPT ![mid] = r.rec]
          /\ nWins' = [nWins EXCEPT ![mid] = IF won THEN @ + 1 ELSE @]
          /\ finishWrites' = [finishWrites EXCEPT ![mid] = IF won THEN @ + 1 ELSE @]
          /\ req' = [req EXCEPT ![s] =
                       IF won THEN [@ EXCEPT !.pc = "finalMatch", !.winnerId = SocketUser(s)]
                       ELSE Finish(@, "MATCH_FINISHED")]
    /\ UNCHANGED <<queue, userMatch, userSocket, sock, userElo, nextMatchId,
                   isProcessing, tick, disc, conn, timer, cleanupTimers, activeBots, bot, events,
                   gameOver, db, nReq>>

\* the second getMatch ("finalMatch"): a vanished record ends the handler
WinFinalMatch(s) ==
    /\ req[s].op = "submit" /\ req[s].pc = "finalMatch"
    /\ req' = [req EXCEPT ![s] =
                 IF getMatch(match[req[s].mid]).hasId THEN [@ EXCEPT !.pc = "save"]
                 ELSE Finish(@, "none")]
    /\ UNCHANGED <<queue, match, userMatch, userSocket, sock, userElo, nextMatchId,
                   isProcessing, tick, disc, conn, timer, cleanupTimers, activeBots, bot, events,
                   gameOver, db, nWins, finishWrites, nReq>>

\* saveMatchToDatabase: the record handed to the persistence collaborator
\* (ratingChange = data.eloChange || 25)
saveMatchToDatabase(w, l, eloChange, result) ==
    [winnerId |-> w, loserId |-> l, result |-> result,
     ratingChange |-> IF eloChange = 0 THEN 25 ELSE eloChange]

\* saveMatchToDatabase returns; both game_over events are emitted and the
\* cleanup timer is set
WinSave(s) ==
    /\ req[s].op = "submit" /\ req[s].pc = "save"
    /\ LET mid == req[s].mid
           m == req[s].snap
           u == SocketUser(s)
           loserId == Other(m, u)
           winnerElo == IF u = m.p1 THEN m.p1elo ELSE m.p2elo
           loserElo == IF u = m.p1 THEN m.p2elo ELSE m.p1elo
           eloChange == calculateEloChange(winnerElo, loserElo)
           loserSocketId == IF m.p1 = u THEN m.p2sock ELSE m.p1sock
           toWinner == GameOverEvent(mid, u, "You solved it first!", winnerElo + eloChange)
           toLoser == GameOverEvent(mid, u, "Opponent solved first", loserElo - eloChange)
       IN /\ db' = [db EXCEPT ![mid] = Append(@, saveMatchToDatabase(u, loserId, eloChange, "won"))]
          /\ gameOver' = Deliver(Deliver(gameOver, {s}, toWinner),
                                 IF Live(loserSocketId) THEN {loserSocketId} ELSE {}, toLoser)
          /\ cleanupTimers' = [cleanupTimers EXCEPT ![mid] = "pending"]
          /\ req' = [req EXCEPT ![s] = Finish(@, "game_over")]
    /\ UNCHANGED <<queue, match, userMatch, userSocket, sock, userElo, nextMatchId,
                   isProcessing, tick, disc, conn, timer, activeBots, bot, events, nWins, finishWrites, nReq>>

(***************************************************************************)
(* GameService.handleForfeit                                               *)
(***************************************************************************)
ForfeitStart(s) ==
    /\ CanSend(s)
    /\ nReq' = Received(nReq)
    /\ req' = [req EXCEPT ![s] =
                 IF sock[s].currentMatchId = NoMatchId
                 THEN Finish([IdleReq EXCEPT !.op = "forfeit"], "none")
                 ELSE [IdleReq EXCEPT !.op = "forfeit", !.pc = "getMatch",
                                      !.mid = sock[s].currentMatchId]]
    /\ UNCHANGED <<queue, match, userMatch, userSocket, sock, userElo, nextMatchId,
                   isProcessing, tick, disc, conn, timer, cleanupTimers, activeBots, bot, events,
                   gameOver, db, nWins, finishWrites>>

ForfeitGetMatch(s) ==
    /\ req[s].op = "forfeit" /\ req[s].pc = "getMatch"
    /\ LET m == getMatch(match[req[s].mid]) IN
         req' = [req EXCEPT ![s] =
                   IF ~m.hasId \/ m.status # "active" THEN Finish(@, "none")
                   ELSE [@ EXCEPT !.pc = "setWinner", !.snap = m,
                                  !.winnerId = Other(m, SocketUser(s))]]
    /\ UNCHANGED <<queue, match, userMatch, userSocket, sock, userElo, nextMatchId,
                   isProcessing, tick, disc, conn, timer, cleanupTimers, activeBots, bot, events,
                   gameOver, db, nWins, finishWrites, nReq>>

ForfeitSetWinner(s) ==
    /\ req[s].op = "forfeit" /\ req[s].pc = "setWinner"
    /\ LET mid == req[s].mid
           r == setMatchWinner(match[mid], req[s].winnerId)
           won == r.won
       IN /\ match' = [match EXCEPT ![mid] = r.rec]
          /\ nWins' = [nWins EXCEPT ![mid] = IF won THEN @ + 1 ELSE @]
          /\ finishWrites' = [finishWrites EXCEPT ![mid] = IF won THEN @ + 1 ELSE @]
          /\ req' = [req EXCEPT ![s] =
                       IF won THEN [@ EXCEPT !.pc = "save"] ELSE Finish(@, "none")]
    /\ UNCHANGED <<queue, userMatch, userSocket, sock, userElo, nextMatchId,
                   isProcessing, tick, disc, conn, timer, cleanupTimers, activeBots, bot, events,
                   gameOver, db, nReq>>

ForfeitSave(s) ==
    /\ req[s].op = "forfeit" /\ req[s].pc = "save"
    /\ LET mid == req[s].mid
           m == req[s].snap
           u == SocketUser(s)
           winnerId == req[s].winnerId
           winnerElo == IF winnerId = m.p1 THEN m.p1elo ELSE m.p2elo
           loserElo == IF u = m.p1 THEN m.p1elo ELSE m.p2elo
           eloChange == calculateEloChange(winnerElo, loserElo)
           winnerSocketId == IF m.p1 = winnerId THEN m.p1sock ELSE m.p2sock
           toWinner == GameOverEvent(mid, winnerId, "Opponent forfeited", 0)
           toLoser == GameOverEvent(mid, winnerId, "You forfeited", 0)
       IN /\ db' = [db EXCEPT ![mid] =
                      Append(@, saveMatchToDatabase(winnerId, u, eloChange, "forfeit"))]
          /\ gameOver' = Deliver(Deliver(gameOver,
                                         IF Live(winnerSocketId) THEN {winnerSocketId} ELSE {},
                                         toWinner),
                                 {s}, toLoser)
          /\ cleanupTimers' = [cleanupTimers EXCEPT ![mid] = "pending"]
          /\ req' = [req EXCEPT ![s] = Finish(@, "game_over")]
    /\ UNCHANGED <<queue, match, userMatch, userSocket, sock, userElo, nextMatchId,
                   isProcessing, tick, disc, conn, timer, activeBots, bot, events, nWins, finishWrites, nReq>>

(***************************************************************************)
(* MatchmakingService.setMatchTimeout: the callback reads the match, and   *)
(* in a second Redis command writes the status.                            *)
(***************************************************************************)
TimeoutRead(m) ==
    /\ timer[m] = "pending"
    /\ LET r == getMatch(match[m]) IN
         timer' = [timer EXCEPT ![m] =
                     IF r.hasId /\ r.status = "active" THEN "write" ELSE "done"]
    /\ UNCHANGED <<queue, match, userMatch, userSocket, sock, userElo, nextMatchId,
                   isProcessing, tick, req, disc, conn, cleanupTimers, activeBots, bot, events,
                   gameOver, db, nWins, finishWrites, nReq>>

TimeoutWrite(m) ==
    /\ timer[m] = "write"
    /\ match' = [match EXCEPT ![m] = updateMatchStatus(@, "finished")]
    /\ finishWrites' = [finishWrites EXCEPT ![m] = @ + 1]
    /\ gameOver' = Deliver(gameOver, InRoom(m),
                           GameOverEvent(m, NoUser, "Match timed out - no winner", 0))
    /\ timer' = [timer EXCEPT ![m] = "done"]
    /\ UNCHANGED <<queue, userMatch, userSocket, sock, userElo, nextMatchId,
                   isProcessing, tick, req, disc, conn, cleanupTimers, activeBots, bot, events,
                   db, nWins, nReq>>

(***************************************************************************)
(* GameService.cleanupMatch, run by the 60 s timer                         *)
(***************************************************************************)
\* fetchSockets of the room: each leaves it and loses its currentMatchId
CleanupSockets(m) ==
    /\ cleanupTimers[m] = "pending"
    /\ sock' = [s \in Sockets |->
                  IF s \in InRoom(m)
                  THEN [sock[s] EXCEPT !.rooms = @ \ {m}, !.currentMatchId = NoMatchId]
                  ELSE sock[s]]
    /\ cleanupTimers' = [cleanupTimers EXCEPT ![m] = "delete"]
    /\ UNCHANGED <<queue, match, userMatch, userSocket, userElo, nextMatchId,
                   isProcessing, tick, req, disc, conn, timer, activeBots, bot, events,
                   gameOver, db, nWins, finishWrites, nReq>>

\* RedisService.deleteMatch: both user pointers and the hash are deleted
deleteMatchPointers(ptr, rec) ==
    [u \in DOMAIN ptr |-> IF rec.hasId /\ u \in {rec.p1, rec.p2} THEN NoMatchId ELSE ptr[u]]

CleanupDelete(m) ==
    /\ cleanupTimers[m] = "delete"
    /\ userMatch' = deleteMatchPointers(userMatch, getMatch(match[m]))
    /\ match' = [match EXCEPT ![m] = NoMatch]
    /\ cleanupTimers' = [cleanupTimers EXCEPT ![m] = "done"]
    /\ UNCHANGED <<queue, userSocket, sock, userElo, nextMatchId,
                   isProcessing, tick, req, disc, conn, timer, activeBots, bot, events,
                   gameOver, db, nWins, finishWrites, nReq>>

(***************************************************************************)
(* MatchmakingService.handleDisconnect                                     *)
(***************************************************************************)
\* the transport closes: the socket leaves its rooms, the handler starts
Disconnect(s) ==
    /\ sock[s].connected
    /\ sock' = [sock EXCEPT ![s].connected = FALSE, ![s].rooms = {}]
    /\ disc' = [disc EXCEPT ![s] = [IdleDisc EXCEPT !.pc = "dequeue"]]
    /\ UNCHANGED <<queue, match, userMatch, userSocket, userElo, nextMatchId,
                   isProcessing, tick, req, conn, timer, cleanupTimers, activeBots, bot, events,
                   gameOver, db, nWins, finishWrites, nReq>>

\* dequeue(user.id) runs; then matchId = socket.data.currentMatchId || getUserMatchId
DiscDequeue(s) ==
    /\ disc[s].pc = "dequeue"
    /\ queue' = dequeue(queue, SocketUser(s))
    /\ disc' = [disc EXCEPT ![s] =
                  IF sock[s].currentMatchId # NoMatchId
                  THEN [@ EXCEPT !.pc = "getMatch", !.mid = sock[s].currentMatchId]
                  ELSE [@ EXCEPT !.pc = "getUserMatchId"]]
    /\ UNCHANGED <<match, userMatch, userSocket, sock, userElo, nextMatchId,
                   isProcessing, tick, req, conn, timer, cleanupTimers, activeBots, bot, events,
                   gameOver, db, nWins, finishWrites, nReq>>

DiscGetUserMatchId(s) ==
    /\ disc[s].pc = "getUserMatchId"
    /\ disc' = [disc EXCEPT ![s] =
                  IF userMatch[SocketUser(s)] # NoMatchId
                  THEN [@ EXCEPT !.pc = "getMatch", !.mid = userMatch[SocketUser(s)]]
                  ELSE [@ EXCEPT !.pc = "deleteUserSocket"]]
    /\ UNCHANGED <<queue, match, userMatch, userSocket, sock, userElo, nextMatchId,
                   isProcessing, tick, req, conn, timer, cleanupTimers, activeBots, bot, events,
                   gameOver, db, nWins, finishWrites, nReq>>

DiscGetMatch(s) ==
    /\ disc[s].pc = "getMatch"
    /\ LET m == getMatch(match[disc[s].mid]) IN
         disc' = [disc EXCEPT ![s] =
                    IF m.hasId /\ m.status = "active"
                    THEN [@ EXCEPT !.pc = "setWinner", !.snap = m,
                                   !.winnerId = Other(m, SocketUser(s))]
                    ELSE [IdleDisc EXCEPT !.pc = "deleteUserSocket"]]
    /\ UNCHANGED <<queue, match, userMatch, userSocket, sock, userElo, nextMatchId,
                   isProcessing, tick, req, conn, timer, cleanupTimers, activeBots, bot, events,
                   gameOver, db, nWins, finishWrites, nReq>>

\* handleDisconnect announcing the win whatever setMatchWinner returned
DiscSetWinnerIgnoringResult(s) ==
    /\ disc[s].pc = "setWinner"
    /\ LET mid == disc[s].mid
           r == setMatchWinner(match[mid], disc[s].winnerId)
           won == r.won
       IN /\ match' = [match EXCEPT ![mid] = r.rec]
          /\ nWins' = [nWins EXCEPT ![mid] = IF won THEN @ + 1 ELSE @]
          /\ finishWrites' = [finishWrites EXCEPT ![mid] = IF won THEN @ + 1 ELSE @]
          /\ gameOver' = IF TRUE
                         THEN Deliver(gameOver, InRoom(mid),
                                      GameOverEvent(mid, disc[s].winnerId,
                                                    "Opponent disconnected", 0))
                         ELSE gameOver
    /\ disc' = [disc EXCEPT ![s] = [IdleDisc EXCEPT !.pc = "deleteUserSocket"]]
    /\ UNCHANGED <<queue, userMatch, userSocket, sock, userElo, nextMatchId,
                   isProcessing, tick, req, conn, timer, cleanupTimers, activeBots, bot, events,
                   db, nReq>>

\* setMatchWinner for the other side; on success game_over goes to the room
DiscSetWinner(s) ==
    /\ disc[s].pc = "setWinner"
    /\ LET mid == disc[s].mid
           r == setMatchWinner(match[mid], disc[s].winnerId)
           won == r.won
       IN /\ match' = [match EXCEPT ![mid] = r.rec]
          /\ nWins' = [nWins EXCEPT ![mid] = IF won THEN @ + 1 ELSE @]
          /\ finishWrites' = [finishWrites EXCEPT ![mid] = IF won THEN @ + 1 ELSE @]
          /\ gameOver' = IF won
                         THEN Deliver(gameOver, InRoom(mid),
                                      GameOverEvent(mid, disc[s].winnerId,
                                                    "Opponent disconnected", 0))
                         ELSE gameOver
    /\ disc' = [disc EXCEPT ![s] = [IdleDisc EXCEPT !.pc = "deleteUserSocket"]]
    /\ UNCHANGED <<queue, userMatch, userSocket, sock, userElo, nextMatchId,
                   isProcessing, tick, req, conn, timer, cleanupTimers, activeBots, bot, events,
                   db, nReq>>

DiscDeleteUserSocket(s) ==
    /\ disc[s].pc = "deleteUserSocket"
    /\ userSocket' = [userSocket EXCEPT ![SocketUser(s)] = NoSocket]
    /\ disc' = [disc EXCEPT ![s].pc = "done"]
    /\ UNCHANGED <<queue, match, userMatch, sock, userElo, nextMatchId,
                   isProcessing, tick, req, conn, timer, cleanupTimers, activeBots, bot, events,
                   gameOver, db, nWins, finishWrites, nReq>>

(***************************************************************************)
(* DeadlockSocketServer: the connection handler                            *)
(***************************************************************************)
\* a new connection of SocketUser(s); listeners are registered at once
Connect(s) ==
    /\ ~sock[s].used
    /\ sock' = [sock EXCEPT ![s].used = TRUE, ![s].connected = TRUE]
    /\ conn' = [conn EXCEPT ![s] = [IdleConn EXCEPT !.pc = "setUserSocket"]]
    /\ UNCHANGED <<queue, match, userMatch, userSocket, userElo, nextMatchId,
                   isProcessing, tick, req, disc, timer, cleanupTimers,
                   activeBots, bot, events, gameOver, db, nWins, finishWrites, nReq>>

ConnSetUserSocket(s) ==
    /\ conn[s].pc = "setUserSocket"
    /\ userSocket' = [userSocket EXCEPT ![SocketUser(s)] = s]
    /\ conn' = [conn EXCEPT ![s].pc = "getUserMatchId"]
    /\ UNCHANGED <<queue, match, userMatch, sock, userElo, nextMatchId,
                   isProcessing, tick, req, disc, timer, cleanupTimers,
                   activeBots, bot, events, gameOver, db, nWins, finishWrites, nReq>>

\* handleReconnection: getUserMatchId
ConnGetUserMatchId(s) ==
    /\ conn[s].pc = "getUserMatchId"
    /\ conn' = [conn EXCEPT ![s] =
                  IF userMatch[SocketUser(s)] # NoMatchId
                  THEN [pc |-> "getMatch", mid |-> userMatch[SocketUser(s)]]
                  ELSE IdleConn]
    /\ UNCHANGED <<queue, match, userMatch, userSocket, sock, userElo, nextMatchId,
                   isProcessing, tick, req, disc, timer, cleanupTimers,
                   activeBots, bot, events, gameOver, db, nWins, finishWrites, nReq>>

\* socket.join: a closed socket is in no room
Join(sk, s, m) ==
    [sk EXCEPT ![s].rooms = IF sk[s].connected THEN @ \cup {m} ELSE @,
               ![s].currentMatchId = m]

\* handleReconnection: getMatch; an active match is joined again
ConnGetMatch(s) ==
    /\ conn[s].pc = "getMatch"
    /\ LET m == getMatch(match[conn[s].mid])
           active == m.hasId /\ m.status = "active"
       IN /\ sock' = IF active THEN Join(sock, s, conn[s].mid) ELSE sock
          /\ conn' = [conn EXCEPT ![s] =
                        IF active THEN [@ EXCEPT !.pc = "updateMatchSocketId"] ELSE IdleConn]
    /\ UNCHANGED <<queue, match, userMatch, userSocket, userElo, nextMatchId,
                   isProcessing, tick, req, disc, timer, cleanupTimers,
                   activeBots, bot, events, gameOver, db, nWins, finishWrites, nReq>>

\* redisService.updateMatchSocketId(matchId, userId, socketId): the stored
\* connection reference of the user's side is replaced
updateMatchSocketId(rec, u, s) ==
    IF ~rec.hasId THEN rec
    ELSE IF rec.p1 = u THEN [rec EXCEPT !.p1sock = s]
    ELSE IF rec.p2 = u THEN [rec EXCEPT !.p2sock = s]
    ELSE rec

ConnUpdateMatchSocketId(s) ==
    /\ conn[s].pc = "updateMatchSocketId"
    /\ match' = [match EXCEPT ![conn[s].mid] = updateMatchSocketId(@, SocketUser(s), s)]
    /\ conn' = [conn EXCEPT ![s] = IdleConn]
    /\ UNCHANGED <<queue, userMatch, userSocket, sock, userElo, nextMatchId,
                   isProcessing, tick, req, disc, timer, cleanupTimers,
                   activeBots, bot, events, gameOver, db, nWins, finishWrites, nReq>>

(***************************************************************************)
(* DeadlockSocketServer.handleRejoinMatch                                  *)
(***************************************************************************)
\* rejoin_match(matchId) arrives, the client naming any match id; getMatch is
\* issued
RejoinStart(s, m) ==
    /\ CanSend(s)
    /\ nReq' = Received(nReq)
    /\ req' = [req EXCEPT ![s] = [IdleReq EXCEPT !.op = "rejoin", !.pc = "getMatch", !.mid = m]]
    /\ UNCHANGED <<queue, match, userMatch, userSocket, sock, userElo, nextMatchId,
                   isProcessing, tick, disc, conn, timer, cleanupTimers, activeBots, bot, events,
                   gameOver, db, nWins, finishWrites>>

\* handleRejoinMatch letting every authenticated user in
RejoinGetMatchAnyUser(s) ==
    /\ req[s].op = "rejoin" /\ req[s].pc = "getMatch"
    /\ LET m == getMatch(match[req[s].mid])
           ok == m.hasId /\ m.status = "active"
       IN /\ sock' = IF ok THEN Join(sock, s, req[s].mid) ELSE sock
          /\ req' = [req EXCEPT ![s] =
                       IF ~m.hasId THEN Finish(@, "MATCH_NOT_FOUND")
                       ELSE IF m.status # "active" THEN Finish(@, "MATCH_ENDED")
                       ELSE [@ EXCEPT !.pc = "updateMatchSocketId", !.snap = m]]
    /\ UNCHANGED <<queue, match, userMatch, userSocket, userElo, nextMatchId,
                   isProcessing, tick, disc, conn, timer, cleanupTimers, activeBots, bot, events,
                   gameOver, db, nWins, finishWrites, nReq>>

\* getMatch returns: a missing match, a requester who is no player of it and
\* a match that is not active are answered with an error; otherwise the
\* socket joins the room and updateMatchSocketId is issued
RejoinGetMatch(s) ==
    /\ req[s].op = "rejoin" /\ req[s].pc = "getMatch"
    /\ LET m == getMatch(match[req[s].mid])
           isPlayer == m.p1 = SocketUser(s) \/ m.p2 = SocketUser(s)
           ok == m.hasId /\ isPlayer /\ m.status = "active"
       IN /\ sock' = IF ok THEN Join(sock, s, req[s].mid) ELSE sock
          /\ req' = [req EXCEPT ![s] =
                       IF ~m.hasId THEN Finish(@, "MATCH_NOT_FOUND")
                       ELSE IF ~isPlayer THEN Finish(@, "NOT_PARTICIPANT")
                       ELSE IF m.status # "active" THEN Finish(@, "MATCH_ENDED")
                       ELSE [@ EXCEPT !.pc = "updateMatchSocketId", !.snap = m]]
    /\ UNCHANGED <<queue, match, userMatch, userSocket, userElo, nextMatchId,
                   isProcessing, tick, disc, conn, timer, cleanupTimers, activeBots, bot, events,
                   gameOver, db, nWins, finishWrites, nReq>>

\* updateMatchSocketId returns; getProblemById is issued
RejoinUpdateMatchSocketId(s) ==
    /\ req[s].op = "rejoin" /\ req[s].pc = "updateMatchSocketId"
    /\ match' = [match EXCEPT ![req[s].mid] = updateMatchSocketId(@, SocketUser(s), s)]
    /\ req' = [req EXCEPT ![s].pc = "getProblemById"]
    /\ UNCHANGED <<queue, userMatch, userSocket, sock, userElo, nextMatchId,
                   isProcessing, tick, disc, conn, timer, cleanupTimers, activeBots, bot, events,
                   gameOver, db, nWins, finishWrites, nReq>>

\* getProblemById returns: match_found is emitted with the visible test
\* cases, or PROBLEM_NOT_FOUND
RejoinGetProblemById(s, found) ==
    /\ req[s].op = "rejoin" /\ req[s].pc = "getProblemById"
    /\ events' = IF found
                 THEN Emit(events, s, [type |-> "match_found", code |-> "filtered",
                                       mid |-> req[s].mid])
                 ELSE events
    /\ req' = [req EXCEPT ![s] =
                 Finish(@, IF found THEN "match_found" ELSE "PROBLEM_NOT_FOUND")]
    /\ UNCHANGED <<queue, match, userMatch, userSocket, sock, userElo, nextMatchId,
                   isProcessing, tick, disc, conn, timer, cleanupTimers, activeBots, bot,
                   gameOver, db, nWins, finishWrites, nReq>>

(***************************************************************************)
(* MatchmakingService.joinQueue / leaveQueue                               *)
(***************************************************************************)
JoinStart(s) ==
    /\ CanSend(s)
    /\ nReq' = Received(nReq)
    /\ req' = [req EXCEPT ![s] = [IdleReq EXCEPT !.op = "join", !.pc = "getUserMatchId"]]
    /\ UNCHANGED <<queue, match, userMatch, userSocket, sock, userElo, nextMatchId,
                   isProcessing, tick, disc, conn, timer, cleanupTimers,
                   activeBots, bot, events, gameOver, db, nWins, finishWrites>>

JoinGetUserMatchId(s) ==
    /\ req[s].op = "join" /\ req[s].pc = "getUserMatchId"
    /\ req' = [req EXCEPT ![s] =
                 IF userMatch[SocketUser(s)] # NoMatchId
                 THEN [@ EXCEPT !.pc = "getMatch", !.mid = userMatch[SocketUser(s)]]
                 ELSE [@ EXCEPT !.pc = "isUserInQueue"]]
    /\ UNCHANGED <<queue, match, userMatch, userSocket, sock, userElo, nextMatchId,
                   isProcessing, tick, disc, conn, timer, cleanupTimers,
                   activeBots, bot, events, gameOver, db, nWins, finishWrites, nReq>>

JoinGetMatch(s) ==
    /\ req[s].op = "join" /\ req[s].pc = "getMatch"
    /\ LET m == getMatch(match[req[s].mid]) IN
         req' = [req EXCEPT ![s] =
                   IF m.hasId /\ m.status = "active" THEN Finish(@, "ALREADY_IN_MATCH")
                   ELSE [@ EXCEPT !.pc = "isUserInQueue", !.mid = NoMatchId]]
    /\ UNCHANGED <<queue, match, userMatch, userSocket, sock, userElo, nextMatchId,
                   isProcessing, tick, disc, conn, timer, cleanupTimers,
                   activeBots, bot, events, gameOver, db, nWins, finishWrites, nReq>>

JoinIsUserInQueue(s) ==
    /\ req[s].op = "join" /\ req[s].pc = "isUserInQueue"
    /\ req' = [req EXCEPT ![s].pc =
                 IF isUserInQueue(queue, SocketUser(s)) THEN "getQueuePosition"
                 ELSE "enqueueCheck"]
    /\ UNCHANGED <<queue, match, userMatch, userSocket, sock, userElo, nextMatchId,
                   isProcessing, tick, disc, conn, timer, cleanupTimers,
                   activeBots, bot, events, gameOver, db, nWins, finishWrites, nReq>>

\* already queued: queue_joined with the current position is sent
JoinGetQueuePosition(s) ==
    /\ req[s].op = "join" /\ req[s].pc = "getQueuePosition"
    /\ req' = [req EXCEPT ![s] =
                 [Finish(@, "queue_joined") EXCEPT
                    !.position = getQueuePosition(queue, SocketUser(s))]]
    /\ UNCHANGED <<queue, match, userMatch, userSocket, sock, userElo, nextMatchId,
                   isProcessing, tick, disc, conn, timer, cleanupTimers,
                   activeBots, bot, events, gameOver, db, nWins, finishWrites, nReq>>

\* enqueue without its isUserInQueue check
JoinEnqueueUnchecked(s) ==
    /\ req[s].op = "join" /\ req[s].pc = "enqueueCheck"
    /\ req' = [req EXCEPT ![s] = [@ EXCEPT !.pc = "rpush"]]
    /\ UNCHANGED <<queue, match, userMatch, userSocket, sock, userElo, nextMatchId,
                   isProcessing, tick, disc, conn, timer, cleanupTimers,
                   activeBots, bot, events, gameOver, db, nWins, finishWrites, nReq>>

\* RedisService.enqueue, first command: isUserInQueue
JoinEnqueueCheck(s) ==
    /\ req[s].op = "join" /\ req[s].pc = "enqueueCheck"
    /\ req' = [req EXCEPT ![s] =
                 IF isUserInQueue(queue, SocketUser(s))
                 THEN [Finish(@, "none") EXCEPT !.position = -1]
                 ELSE [@ EXCEPT !.pc = "rpush"]]
    /\ UNCHANGED <<queue, match, userMatch, userSocket, sock, userElo, nextMatchId,
                   isProcessing, tick, disc, conn, timer, cleanupTimers,
                   activeBots, bot, events, gameOver, db, nWins, finishWrites, nReq>>

\* RedisService.enqueue, second command: RPUSH, which returns the new length;
\* joinQueue emits queue_joined with it
JoinRpush(s) ==
    /\ req[s].op = "join" /\ req[s].pc = "rpush"
    /\ queue' = Append(queue, QueueEntry(SocketUser(s), s, userElo[SocketUser(s)]))
    /\ req' = [req EXCEPT ![s] =
                 [Finish(@, "queue_joined") EXCEPT !.position = Len(queue) + 1]]
    /\ UNCHANGED <<match, userMatch, userSocket, sock, userElo, nextMatchId,
                   isProcessing, tick, disc, conn, timer, cleanupTimers,
                   activeBots, bot, events, gameOver, db, nWins, finishWrites, nReq>>

\* leave_queue: one atomic dequeue
LeaveQueue(s) ==
    /\ CanSend(s)
    /\ nReq' = Received(nReq)
    /\ queue' = dequeue(queue, SocketUser(s))
    /\ req' = [req EXCEPT ![s] =
                 Finish([IdleReq EXCEPT !.op = "leave"],
                        IF isUserInQueue(queue, SocketUser(s)) THEN "queue_left" ELSE "none")]
    /\ UNCHANGED <<match, userMatch, userSocket, sock, userElo, nextMatchId,
                   isProcessing, tick, disc, conn, timer, cleanupTimers,
                   activeBots, bot, events, gameOver, db, nWins, finishWrites>>

\* time passes: the wait of entry i reaches config.bot.triggerDelay
Age(i) ==
    /\ i \in 1..Len(queue)
    /\ ~queue[i].aged
    /\ queue' = [queue EXCEPT ![i].aged = TRUE]
    /\ UNCHANGED <<match, userMatch, userSocket, sock, userElo, nextMatchId,
                   isProcessing, tick, req, disc, conn, timer, cleanupTimers,
                   activeBots, bot, events, gameOver, db, nWins, finishWrites, nReq>>

(***************************************************************************)
(* BotPlayer                                                               *)
(***************************************************************************)
\* Math.floor(Math.random() * 70) + 15 ranges over 15..84; the values kept
\* are the least, the greatest and one in between that is no checkpoint
FailurePoints == {15, 31, 84}

\* generateProgressCheckpoints, in the order of their times
CheckpointPercentage == <<0, 15, 30, 50, 70, 85, 100>>
CheckpointStatus ==
    <<"Reading problem", "Thinking", "Coding solution", "Testing locally",
      "Debugging", "Final checks", "Submitting">>

\* io.to(matchId).emit("opponent_progress", ...): added to the events of the
\* sockets in the room
EmitRoom(ev, m, status) ==
    [x \in Sockets |->
        IF x \in InRoom(m)
        THEN ev[x] \cup {[type |-> "opponent_progress", code |-> status, mid |-> m]}
        ELSE ev[x]]

\* setTimeout(() => bot.start(), 3000) fires: one timeout per checkpoint
BotStart(m) ==
    /\ bot[m].state = "scheduled"
    /\ bot' = [bot EXCEPT ![m].state = "started",
                          ![m].timeouts = 1..Len(CheckpointPercentage)]
    /\ UNCHANGED <<queue, match, userMatch, userSocket, sock, userElo, nextMatchId,
                   isProcessing, tick, req, disc, conn, timer, cleanupTimers,
                   activeBots, events, gameOver, db, nWins, finishWrites, nReq>>

\* the callback of checkpoint k of start(), with failSolution and
\* submitWinningSolution: the BotPlayer after it
Checkpoint(b, k) ==
    LET progress == CheckpointPercentage[k]
        wrong == [status |-> "Wrong Answer", percentage |-> progress]
        shown == [status |-> CheckpointStatus[k], percentage |-> progress]
        accepted == [status |-> "Accepted", percentage |-> progress]
    IN IF b.isStopped THEN [b EXCEPT !.timeouts = @ \ {k}]
       ELSE IF b.shouldFail /\ progress >= b.failurePoint
       THEN [b EXCEPT !.timeouts = @ \ {k}, !.progress = progress,
                      !.emitted = Append(@, wrong),
                      !.completions = Append(@, "failed")]
       ELSE IF progress >= 100
       THEN [b EXCEPT !.timeouts = @ \ {k}, !.progress = progress,
                      !.emitted = @ \o <<shown, accepted>>,
                      !.completions = Append(@, "success")]
       ELSE [b EXCEPT !.timeouts = @ \ {k}, !.progress = progress,
                      !.emitted = Append(@, shown)]

\* the earliest pending checkpoint timeout fires.  The checkpoints are at
\* least 0.08 * targetTime - 2000 ms apart (more than 10 s, targetTime being
\* at least 0.9 * 180000 ms), so the completion delayed by 500 or 1000 ms has
\* run before the next checkpoint.
BotCheckpoint(m) ==
    /\ bot[m].state = "started"
    /\ bot[m].timeouts # {}
    /\ bot[m].completions = <<>>
    /\ LET k == CHOOSE i \in bot[m].timeouts : \A j \in bot[m].timeouts : i <= j
           b == Checkpoint(bot[m], k)
       IN /\ bot' = [bot EXCEPT ![m] = b]
          /\ events' = IF Len(b.emitted) = Len(bot[m].emitted) THEN events
                       ELSE IF Len(b.emitted) = Len(bot[m].emitted) + 1
                       THEN EmitRoom(events, m, b.emitted[Len(b.emitted)].status)
                       ELSE EmitRoom(EmitRoom(events, m, CheckpointStatus[k]), m, "Accepted")
    /\ UNCHANGED <<queue, match, userMatch, userSocket, sock, userElo, nextMatchId,
                   isProcessing, tick, req, disc, conn, timer, cleanupTimers,
                   activeBots, gameOver, db, nWins, finishWrites, nReq>>

\* gameService.handleBotCompletion(matchId, result): a success goes through
\* the atomic finish (the bot is the winner, the human side is told); a
\* failure changes nothing
handleBotCompletion(m, result) ==
    LET r == setMatchWinner(match[m], BotId(m))
        won == result = "success" /\ r.won
        eloChange == calculateEloChange(r.rec.p2elo, r.rec.p1elo)
        toLoser == GameOverEvent(m, BotId(m), "Opponent solved first", r.rec.p1elo - eloChange)
    IN IF won
       THEN /\ match' = [match EXCEPT ![m] = r.rec]
            /\ nWins' = [nWins EXCEPT ![m] = @ + 1]
            /\ finishWrites' = [finishWrites EXCEPT ![m] = @ + 1]
            /\ db' = [db EXCEPT ![m] =
                        Append(@, saveMatchToDatabase(BotId(m), r.rec.p1, eloChange, "won"))]
            /\ gameOver' = Deliver(gameOver, InRoom(m), toLoser)
            /\ cleanupTimers' = [cleanupTimers EXCEPT ![m] = "pending"]
       ELSE UNCHANGED <<match, nWins, finishWrites, db, gameOver, cleanupTimers>>

\* a delayed completion callback that does not look at isStopped
BotCompletionIgnoringStop(m) ==
    /\ bot[m].completions # <<>>
    /\ bot' = [bot EXCEPT ![m].completions = Tail(@),
                          ![m].completed = Append(@, Head(bot[m].completions))]
    /\ handleBotCompletion(m, Head(bot[m].completions))
    /\ UNCHANGED <<queue, userMatch, userSocket, sock, userElo, nextMatchId,
                   isProcessing, tick, req, disc, conn, timer,
                   activeBots, events, nReq>>

\* the delayed callback of submitWinningSolution (500 ms) or failSolution
\* (1000 ms) fires: onComplete(result) unless the bot was stopped
BotCompletion(m) ==
    /\ bot[m].completions # <<>>
    /\ LET result == Head(bot[m].completions) IN
         IF bot[m].isStopped
         THEN /\ bot' = [bot EXCEPT ![m].completions = Tail(@)]
              /\ UNCHANGED <<match, nWins, finishWrites, db, gameOver, cleanupTimers>>
         ELSE /\ bot' = [bot EXCEPT ![m].completions = Tail(@),
                                    ![m].completed = Append(@, result)]
              /\ handleBotCompletion(m, result)
    /\ UNCHANGED <<queue, userMatch, userSocket, sock, userElo, nextMatchId,
                   isProcessing, tick, req, disc, conn, timer,
                   activeBots, events, nReq>>

\* BotPlayer.stop(): isStopped is set and the checkpoint timeouts are
\* cleared; the delayed completion timeouts are not in this.timeouts and stay
\* pending.  Nothing in the program calls it (cleanupBot has no caller), so
\* it is an action of the scenarios that exercise the method only.
BotStop(m) ==
    /\ bot[m].state # "none"
    /\ ~bot[m].isStopped
    /\ bot' = [bot EXCEPT ![m].isStopped = TRUE, ![m].timeouts = {}]
    /\ UNCHANGED <<queue, match, userMatch, userSocket, sock, userElo, nextMatchId,
                   isProcessing, tick, req, disc, conn, timer, cleanupTimers,
                   activeBots, events, gameOver, db, nWins, finishWrites, nReq>>

Bots == \E m \in MatchIds : BotStart(m) \/ BotCheckpoint(m) \/ BotCompletion(m)

(***************************************************************************)
(* MatchmakingService.processQueue, the scheduler tick                     *)
(***************************************************************************)
\* the finally block: isProcessing = false
TickDone == IdleTick

\* a scan that takes the next entry whatever its wait
NextOfAnyAge(snapshot, i) == IF i <= Len(snapshot) THEN i ELSE 0

\* index of the next snapshot entry, from i on, whose wait reached the bot
\* trigger delay; 0 when there is none
NextAged(snapshot, i) ==
    IF \E j \in i..Len(snapshot) : snapshot[j].aged
    THEN CHOOSE j \in i..Len(snapshot) :
            /\ snapshot[j].aged
            /\ \A k \in i..(j - 1) : ~snapshot[k].aged
    ELSE 0

\* after checkForBotMatches: `if (queueLength < 2) return`, else popTwoPlayers
AfterBots(t) ==
    IF t.queueLength < 2 THEN TickDone ELSE [IdleTick EXCEPT !.pc = "popTwoPlayers"]

\* the for loop of checkForBotMatches, from index i to its next await
BotLoopFrom(t, i) ==
    IF NextAged(t.snapshot, i) = 0 THEN AfterBots(t)
    ELSE [t EXCEPT !.pc = "botDequeue", !.i = NextAged(t.snapshot, i)]

\* a tick that begins processQueue's body whether or not one is running
TickStartUnguarded ==
    /\ isProcessing' = TRUE
    /\ tick' = [IdleTick EXCEPT !.pc = "getQueueLength"]
    /\ UNCHANGED <<queue, match, userMatch, userSocket, sock, userElo, nextMatchId,
                   req, disc, conn, timer, cleanupTimers,
                   activeBots, bot, events, gameOver, db, nWins, finishWrites, nReq>>

\* setInterval fires while a tick is running: `if (this.isProcessing) return`
TickSkip ==
    /\ isProcessing
    /\ UNCHANGED vars

\* setInterval fires and no tick is running
TickStart ==
    /\ ~isProcessing
    /\ tick.pc = "idle"
    /\ isProcessing' = TRUE
    /\ tick' = [IdleTick EXCEPT !.pc = "getQueueLength"]
    /\ UNCHANGED <<queue, match, userMatch, userSocket, sock, userElo, nextMatchId,
                   req, disc, conn, timer, cleanupTimers,
                   activeBots, bot, events, gameOver, db, nWins, finishWrites, nReq>>

TickGetQueueLength ==
    /\ tick.pc = "getQueueLength"
    /\ tick' = IF Len(queue) > 0
               THEN [tick EXCEPT !.pc = "getQueue", !.queueLength = Len(queue)]
               ELSE TickDone
    /\ isProcessing' = (tick'.pc # "idle")
    /\ UNCHANGED <<queue, match, userMatch, userSocket, sock, userElo, nextMatchId,
                   req, disc, conn, timer, cleanupTimers,
                   activeBots, bot, events, gameOver, db, nWins, finishWrites, nReq>>

\* redisService.getQueue(): the whole list, in order
getQueue(q) == q

\* checkForBotMatches: the queue snapshot is taken
TickGetQueue ==
    /\ tick.pc = "getQueue"
    /\ tick' = BotLoopFrom([tick EXCEPT !.snapshot = getQueue(queue)], 1)
    /\ isProcessing' = (tick'.pc # "idle")
    /\ UNCHANGED <<queue, match, userMatch, userSocket, sock, userElo, nextMatchId,
                   req, disc, conn, timer, cleanupTimers,
                   activeBots, bot, events, gameOver, db, nWins, finishWrites, nReq>>

\* checkForBotMatches: dequeue(entry.userId), its result unused; a live
\* socket goes on to createBotMatch (uuidv4, getRandomProblem)
TickBotDequeue ==
    /\ tick.pc = "botDequeue"
    /\ LET entry == tick.snapshot[tick.i] IN
         /\ queue' = dequeue(queue, entry.userId)
         /\ IF Live(entry.socketId)
            THEN /\ nextMatchId <= MaxMatches
                 /\ nextMatchId' = nextMatchId + 1
                 /\ tick' = [tick EXCEPT !.pc = "botProblem", !.mid = nextMatchId]
            ELSE /\ nextMatchId' = nextMatchId
                 /\ tick' = BotLoopFrom(tick, tick.i + 1)
    /\ isProcessing' = (tick'.pc # "idle")
    /\ UNCHANGED <<match, userMatch, userSocket, sock, userElo,
                   req, disc, conn, timer, cleanupTimers,
                   activeBots, bot, events, gameOver, db, nWins, finishWrites, nReq>>

\* createBotMatch: getRandomProblem returns; without a problem an error is
\* emitted, otherwise the BotPlayer is created (its failure rolled) and stored
TickBotProblem(found, shouldFail) ==
    /\ tick.pc = "botProblem"
    /\ LET entry == tick.snapshot[tick.i] IN
         IF found
         THEN /\ \E failurePoint \in IF shouldFail THEN FailurePoints ELSE {NoFailurePoint} :
                   bot' = [bot EXCEPT ![tick.mid] =
                             [NoBot EXCEPT !.state = "created", !.shouldFail = shouldFail,
                                           !.failurePoint = failurePoint]]
              /\ activeBots' = activeBots \cup {tick.mid}
              /\ tick' = [tick EXCEPT !.pc = "botHset"]
              /\ events' = events
         ELSE /\ shouldFail = FALSE
              /\ events' = Emit(events, entry.socketId,
                                [type |-> "error", code |-> "none", mid |-> tick.mid])
              /\ tick' = BotLoopFrom(tick, tick.i + 1)
              /\ UNCHANGED <<bot, activeBots, nReq>>
    /\ isProcessing' = (tick'.pc # "idle")
    /\ UNCHANGED <<queue, match, userMatch, userSocket, sock, userElo, nextMatchId,
                   req, disc, conn, timer, cleanupTimers,
                   gameOver, db, nWins, finishWrites, nReq>>

\* redisService.createMatch: HSET (and EXPIRE) of the match hash
TickBotHset ==
    /\ tick.pc = "botHset"
    /\ LET entry == tick.snapshot[tick.i] IN
         match' = [match EXCEPT ![tick.mid] =
                     MatchState(entry.userId, entry.socketId, entry.elo,
                                BotId(tick.mid), BotSocket, BotElo)]
    /\ tick' = [tick EXCEPT !.pc = "botPtr1"]
    /\ UNCHANGED <<queue, userMatch, userSocket, sock, userElo, nextMatchId,
                   isProcessing, req, disc, conn, timer, cleanupTimers,
                   activeBots, bot, events, gameOver, db, nWins, finishWrites, nReq>>

\* redisService.createMatch: SET user:<player1>:match
TickBotPtr1 ==
    /\ tick.pc = "botPtr1"
    /\ userMatch' = [userMatch EXCEPT ![tick.snapshot[tick.i].userId] = tick.mid]
    /\ tick' = [tick EXCEPT !.pc = "botPtr2"]
    /\ UNCHANGED <<queue, match, userSocket, sock, userElo, nextMatchId,
                   isProcessing, req, disc, conn, timer, cleanupTimers,
                   activeBots, bot, events, gameOver, db, nWins, finishWrites, nReq>>

\* redisService.createMatch: SET user:<bot>:match; then createBotMatch joins
\* the room, emits match_found and schedules bot.start.  No match timeout is
\* set on this path.
TickBotPtr2 ==
    /\ tick.pc = "botPtr2"
    /\ LET entry == tick.snapshot[tick.i] IN
         /\ userMatch' = [userMatch EXCEPT ![BotId(tick.mid)] = tick.mid]
         /\ sock' = Join(sock, entry.socketId, tick.mid)
         /\ events' = Emit(events, entry.socketId,
                           [type |-> "match_found", code |-> "unfiltered", mid |-> tick.mid])
         /\ bot' = [bot EXCEPT ![tick.mid].state = "scheduled"]
         /\ tick' = BotLoopFrom(tick, tick.i + 1)
    /\ isProcessing' = (tick'.pc # "idle")
    /\ UNCHANGED <<queue, match, userSocket, userElo, nextMatchId,
                   req, disc, conn, timer, cleanupTimers,
                   activeBots, gameOver, db, nWins, finishWrites, nReq>>

\* a validation that takes every popped player for connected
LiveOfAll(players) == players

\* the entries of a popped pair whose socket is still connected
LiveOf(players) ==
    (IF Live(players[1].socketId) THEN <<players[1]>> ELSE <<>>) \o
    (IF Live(players[2].socketId) THEN <<players[2]>> ELSE <<>>)

\* popTwoPlayers: MULTI { LPOP; LPOP }.  Two entries: the sockets are
\* validated and createMatch starts (uuidv4, getRandomProblem), or the live
\* one is re-queued.  One entry: it is pushed back.  None: the tick ends.
TickPopTwoPlayers ==
    /\ tick.pc = "popTwoPlayers"
    /\ LET popped == popTwoPlayersPopped(queue) IN
         /\ queue' = popTwoPlayersRest(queue)
         /\ IF Len(popped) = 2 /\ Len(LiveOf(popped)) = 2
            THEN /\ nextMatchId <= MaxMatches
                 /\ nextMatchId' = nextMatchId + 1
                 /\ tick' = [tick EXCEPT !.pc = "pairProblem", !.players = popped,
                                         !.mid = nextMatchId]
            ELSE /\ nextMatchId' = nextMatchId
                 /\ tick' = IF Len(popped) = 2
                            THEN IF LiveOf(popped) = <<>> THEN TickDone
                                 ELSE [tick EXCEPT !.pc = "enqueueCheck",
                                                   !.players = LiveOf(popped)]
                            ELSE IF Len(popped) = 1
                            THEN [tick EXCEPT !.pc = "lpush", !.players = popped]
                            ELSE TickDone
    /\ isProcessing' = (tick'.pc # "idle")
    /\ UNCHANGED <<match, userMatch, userSocket, sock, userElo,
                   req, disc, conn, timer, cleanupTimers,
                   activeBots, bot, events, gameOver, db, nWins, finishWrites, nReq>>

\* the single popped entry put back with RPUSH, at the tail
TickPushBackAtTail ==
    /\ tick.pc = "lpush"
    /\ queue' = queue \o <<tick.players[1]>>
    /\ tick' = TickDone
    /\ isProcessing' = FALSE
    /\ UNCHANGED <<match, userMatch, userSocket, sock, userElo, nextMatchId,
                   req, disc, conn, timer, cleanupTimers,
                   activeBots, bot, events, gameOver, db, nWins, finishWrites, nReq>>

\* popTwoPlayers: the single popped entry is pushed back to the head
TickLpush ==
    /\ tick.pc = "lpush"
    /\ queue' = <<tick.players[1]>> \o queue
    /\ tick' = TickDone
    /\ isProcessing' = FALSE
    /\ UNCHANGED <<match, userMatch, userSocket, sock, userElo, nextMatchId,
                   req, disc, conn, timer, cleanupTimers,
                   activeBots, bot, events, gameOver, db, nWins, finishWrites, nReq>>

\* RedisService.enqueue(player) of a re-queue, first command: isUserInQueue
TickEnqueueCheck ==
    /\ tick.pc = "enqueueCheck"
    /\ tick' = IF isUserInQueue(queue, tick.players[1].userId)
               THEN IF Len(tick.players) = 1 THEN TickDone
                    ELSE [tick EXCEPT !.players = Tail(@)]
               ELSE [tick EXCEPT !.pc = "rpush"]
    /\ isProcessing' = (tick'.pc # "idle")
    /\ UNCHANGED <<queue, match, userMatch, userSocket, sock, userElo, nextMatchId,
                   req, disc, conn, timer, cleanupTimers,
                   activeBots, bot, events, gameOver, db, nWins, finishWrites, nReq>>

\* RedisService.enqueue(player) of a re-queue, second command: RPUSH
TickRpush ==
    /\ tick.pc = "rpush"
    /\ queue' = Append(queue, tick.players[1])
    /\ tick' = IF Len(tick.players) = 1 THEN TickDone
               ELSE [tick EXCEPT !.pc = "enqueueCheck", !.players = Tail(@)]
    /\ isProcessing' = (tick'.pc # "idle")
    /\ UNCHANGED <<match, userMatch, userSocket, sock, userElo, nextMatchId,
                   req, disc, conn, timer, cleanupTimers,
                   activeBots, bot, events, gameOver, db, nWins, finishWrites, nReq>>

\* createMatch: getRandomProblem returns; without a problem both players
\* are re-queued
TickPairProblem(found) ==
    /\ tick.pc = "pairProblem"
    /\ tick' = [tick EXCEPT !.pc = IF found THEN "pairHset" ELSE "enqueueCheck"]
    /\ UNCHANGED <<queue, match, userMatch, userSocket, sock, userElo, nextMatchId,
                   isProcessing, req, disc, conn, timer, cleanupTimers,
                   activeBots, bot, events, gameOver, db, nWins, finishWrites, nReq>>

\* redisService.createMatch: HSET (and EXPIRE) of the match hash
TickPairHset ==
    /\ tick.pc = "pairHset"
    /\ LET a == tick.players[1]
           b == tick.players[2]
       IN match' = [match EXCEPT ![tick.mid] =
                      MatchState(a.userId, a.socketId, a.elo, b.userId, b.socketId, b.elo)]
    /\ tick' = [tick EXCEPT !.pc = "pairPtr1"]
    /\ UNCHANGED <<queue, userMatch, userSocket, sock, userElo, nextMatchId,
                   isProcessing, req, disc, conn, timer, cleanupTimers,
                   activeBots, bot, events, gameOver, db, nWins, finishWrites, nReq>>

TickPairPtr1 ==
    /\ tick.pc = "pairPtr1"
    /\ userMatch' = [userMatch EXCEPT ![tick.players[1].userId] = tick.mid]
    /\ tick' = [tick EXCEPT !.pc = "pairPtr2"]
    /\ UNCHANGED <<queue, match, userSocket, sock, userElo, nextMatchId,
                   isProcessing, req, disc, conn, timer, cleanupTimers,
                   activeBots, bot, events, gameOver, db, nWins, finishWrites, nReq>>

\* the last SET of redisService.createMatch; then createMatch joins both
\* sockets to the room, emits match_found to each and calls setMatchTimeout
TickPairPtr2 ==
    /\ tick.pc = "pairPtr2"
    /\ LET a == tick.players[1]
           b == tick.players[2]
           found == [type |-> "match_found", code |-> "filtered", mid |-> tick.mid]
       IN /\ userMatch' = [userMatch EXCEPT ![b.userId] = tick.mid]
          /\ sock' = Join(Join(sock, a.socketId, tick.mid), b.socketId, tick.mid)
          /\ events' = Emit(Emit(events, a.socketId, found), b.socketId, found)
          /\ timer' = [timer EXCEPT ![tick.mid] = "pending"]
    /\ tick' = TickDone
    /\ isProcessing' = FALSE
    /\ UNCHANGED <<queue, match, userSocket, userElo, nextMatchId,
                   req, disc, conn, cleanupTimers,
                   activeBots, bot, gameOver, db, nWins, finishWrites, nReq>>

\* redisService.createMatch throws in createBotMatch (the store is
\* unavailable): the catch of createBotMatch emits an error to the player and
\* the loop of checkForBotMatches goes on.  The BotPlayer stays in activeBots.
TickBotHsetFails ==
    /\ tick.pc = "botHset"
    /\ events' = Emit(events, tick.snapshot[tick.i].socketId,
                      [type |-> "error", code |-> "none", mid |-> tick.mid])
    /\ tick' = BotLoopFrom(tick, tick.i + 1)
    /\ isProcessing' = (tick'.pc # "idle")
    /\ UNCHANGED <<queue, match, userMatch, userSocket, sock, userElo, nextMatchId,
                   req, disc, conn, timer, cleanupTimers,
                   activeBots, bot, gameOver, db, nWins, finishWrites, nReq>>

\* a processQueue without its finally block: the thrown error ends the tick
\* and leaves isProcessing set
TickPairHsetFailsHoldingFlag ==
    /\ tick.pc = "pairHset"
    /\ tick' = TickDone
    /\ UNCHANGED <<queue, match, userMatch, userSocket, sock, userElo, nextMatchId,
                   isProcessing, req, disc, conn, timer, cleanupTimers,
                   activeBots, bot, events, gameOver, db, nWins, finishWrites, nReq>>

\* redisService.createMatch throws in createMatch: the exception reaches the
\* catch of processQueue, which logs it; finally resets isProcessing
TickPairHsetFails ==
    /\ tick.pc = "pairHset"
    /\ tick' = TickDone
    /\ isProcessing' = FALSE
    /\ UNCHANGED <<queue, match, userMatch, userSocket, sock, userElo, nextMatchId,
                   req, disc, conn, timer, cleanupTimers,
                   activeBots, bot, events, gameOver, db, nWins, finishWrites, nReq>>

StoreFailures ==
    \/ TickBotHsetFails
    \/ TickPairHsetFails

(***************************************************************************)
(* The system                                                              *)
(***************************************************************************)
Scheduler ==
    \/ TickStart
    \/ TickSkip
    \/ TickGetQueueLength
    \/ TickGetQueue
    \/ TickBotDequeue
    \/ \E found \in BOOLEAN, shouldFail \in BOOLEAN : TickBotProblem(found, shouldFail)
    \/ TickBotHset
    \/ TickBotPtr1
    \/ TickBotPtr2
    \/ TickPopTwoPlayers
    \/ TickLpush
    \/ TickEnqueueCheck
    \/ TickRpush
    \/ \E found \in BOOLEAN : TickPairProblem(found)
    \/ TickPairHset
    \/ TickPairPtr1
    \/ TickPairPtr2

Timers ==
    \E m \in MatchIds :
        \/ TimeoutRead(m)
        \/ TimeoutWrite(m)
        \/ CleanupSockets(m)
        \/ CleanupDelete(m)

Connection(s) ==
    \/ Connect(s)
    \/ ConnSetUserSocket(s)
    \/ ConnGetUserMatchId(s)
    \/ ConnGetMatch(s)
    \/ ConnUpdateMatchSocketId(s)
    \/ Disconnect(s)
    \/ DiscDequeue(s)
    \/ DiscGetUserMatchId(s)
    \/ DiscGetMatch(s)
    \/ DiscSetWinner(s)
    \/ DiscDeleteUserSocket(s)

QueueRequests(s) ==
    \/ JoinStart(s)
    \/ JoinGetUserMatchId(s)
    \/ JoinGetMatch(s)
    \/ JoinIsUserInQueue(s)
    \/ JoinGetQueuePosition(s)
    \/ JoinEnqueueCheck(s)
    \/ JoinRpush(s)
    \/ LeaveQueue(s)

GameRequests(s) ==
    \/ SubmitStart(s)
    \/ SubmitGetMatch(s)
    \/ \E v \in Verdicts : SubmitJudge(s, v)
    \/ WinSetWinner(s)
    \/ WinFinalMatch(s)
    \/ WinSave(s)
    \/ ForfeitStart(s)
    \/ ForfeitGetMatch(s)
    \/ ForfeitSetWinner(s)
    \/ ForfeitSave(s)

RejoinRequests(s) ==
    \/ \E m \in MatchIds : RejoinStart(s, m)
    \/ RejoinGetMatch(s)
    \/ RejoinUpdateMatchSocketId(s)
    \/ \E found \in BOOLEAN : RejoinGetProblemById(s, found)

Next ==
    \/ Scheduler
    \/ StoreFailures
    \/ Timers
    \/ Bots
    \/ \E i \in 1..Len(queue) : Age(i)
    \/ \E s \in Sockets :
          Connection(s) \/ QueueRequests(s) \/ GameRequests(s) \/ RejoinRequests(s)


(***************************************************************************)
(* Arbitration of one match.  InitArb is the state the system is in right  *)
(* after processQueue has paired u1 (on s1) with u2 (on s2): both joined   *)
(* the queue, createMatch stored match 1, joined both sockets to its room  *)
(* and set the match timeout.                                              *)
(***************************************************************************)
ArbSockets == {"s1", "s2"}

InitArbWith(elos) ==
    /\ queue = <<>>
    /\ userElo \in elos
    /\ match = [m \in MatchIds |->
                  IF m = 1
                  THEN MatchState("u1", "s1", userElo["u1"], "u2", "s2", userElo["u2"])
                  ELSE NoMatch]
    /\ userMatch = [u \in AllIds |-> IF u \in {"u1", "u2"} THEN 1 ELSE NoMatchId]
    /\ userSocket = [u \in Users |->
                       IF u = "u1" THEN "s1" ELSE IF u = "u2" THEN "s2" ELSE NoSocket]
    /\ sock = [s \in Sockets |->
                 IF s \in ArbSockets
                 THEN [used |-> TRUE, connected |-> TRUE, currentMatchId |-> 1, rooms |-> {1}]
                 ELSE NoSock]
    /\ nextMatchId = 2
    /\ isProcessing = FALSE
    /\ tick = IdleTick
    /\ req = [s \in Sockets |->
                IF s \in ArbSockets
                THEN [IdleReq EXCEPT !.op = "join", !.resp = "queue_joined",
                                     !.position = IF s = "s1" THEN 1 ELSE 2]
                ELSE IdleReq]
    /\ disc = [s \in Sockets |-> IdleDisc]
    /\ conn = [s \in Sockets |-> IdleConn]
    /\ timer = [m \in MatchIds |-> IF m = 1 THEN "pending" ELSE "none"]
    /\ cleanupTimers = [m \in MatchIds |-> "none"]
    /\ activeBots = {}
    /\ bot = [m \in MatchIds |-> NoBot]
    /\ events = [s \in Sockets |->
                   IF s \in ArbSockets
                   THEN {[type |-> "match_found", code |-> "filtered", mid |-> 1]}
                   ELSE {}]
    /\ gameOver = [s \in Sockets |-> <<>>]
    /\ db = [m \in MatchIds |-> <<>>]
    /\ nWins = [m \in MatchIds |-> 0]
    /\ finishWrites = [m \in MatchIds |-> 0]
    /\ nReq = MaxRequests

Disconnection(s) ==
    \/ Disconnect(s)
    \/ DiscDequeue(s)
    \/ DiscGetUserMatchId(s)
    \/ DiscGetMatch(s)
    \/ DiscSetWinner(s)
    \/ DiscDeleteUserSocket(s)

NextArb ==
    \/ Timers
    \/ \E s \in ArbSockets : GameRequests(s) \/ Disconnection(s)

\* the scenario of the specification: both players rated 1200
InitArb == InitArbWith({[u \in Users |-> 1200]})

SpecArb == InitArb /\ [][NextArb]_vars

(***************************************************************************)
(* Ratings: the same match with every pair of ratings, decided by          *)
(* submissions alone.                                                      *)
(***************************************************************************)
InitElo == InitArbWith({e \in [Users -> EloSet] : e["u3"] = 1200 /\ e["u4"] = 1200})

NextElo == \E s \in ArbSockets : GameRequests(s)

SpecElo == InitElo /\ [][NextElo]_vars

(***************************************************************************)
(* Matchmaking: from construction, connections, queue requests and the     *)
(* scheduler, with time passing.                                           *)
(***************************************************************************)
InitWith(elos) ==
    /\ queue = <<>>
    /\ match = [m \in MatchIds |-> NoMatch]
    /\ userMatch = [u \in AllIds |-> NoMatchId]
    /\ userSocket = [u \in Users |-> NoSocket]
    /\ sock = [s \in Sockets |-> NoSock]
    /\ userElo \in elos
    /\ nextMatchId = 1
    /\ isProcessing = FALSE
    /\ tick = IdleTick
    /\ req = [s \in Sockets |-> IdleReq]
    /\ disc = [s \in Sockets |-> IdleDisc]
    /\ conn = [s \in Sockets |-> IdleConn]
    /\ timer = [m \in MatchIds |-> "none"]
    /\ cleanupTimers = [m \in MatchIds |-> "none"]
    /\ activeBots = {}
    /\ bot = [m \in MatchIds |-> NoBot]
    /\ events = [s \in Sockets |-> {}]
    /\ gameOver = [s \in Sockets |-> <<>>]
    /\ db = [m \in MatchIds |-> <<>>]
    /\ nWins = [m \in MatchIds |-> 0]
    /\ finishWrites = [m \in MatchIds |-> 0]
    /\ nReq = 0

InitQueue == InitWith({[u \in Users |-> 1200]})

Connecting(s) ==
    \/ Connect(s)
    \/ ConnSetUserSocket(s)
    \/ ConnGetUserMatchId(s)
    \/ ConnGetMatch(s)
    \/ ConnUpdateMatchSocketId(s)

Joining(s) ==
    \/ (nReq < MaxRequests /\ JoinStart(s))
    \/ JoinGetUserMatchId(s)
    \/ JoinGetMatch(s)
    \/ JoinIsUserInQueue(s)
    \/ JoinGetQueuePosition(s)
    \/ JoinEnqueueCheck(s)
    \/ JoinRpush(s)

NextQueue ==
    \/ Scheduler
    \/ \E i \in 1..Len(queue) : Age(i)
    \/ \E s \in ArbSockets : Connecting(s) \/ Joining(s)

SpecQueue == InitQueue /\ [][NextQueue]_vars


(***************************************************************************)
(* The whole system from construction                                      *)
(***************************************************************************)
Init == InitWith([Users -> EloSet])

Spec == Init /\ [][Next]_vars


(***************************************************************************)
(* Properties of the arbitration of one match (SpecArb)                    *)
(***************************************************************************)
\* C1: for one match, at most one call of setMatchWinner returns true, however
\* the submission, forfeit and disconnect handlers of the two players
\* interleave; every other concurrent call returns false.
C1_AtMostOneWin == \A m \in MatchIds : nWins[m] <= 1

\* two accepted submissions were both past the judge when the first one won:
\* the second call of setMatchWinner returned false
C1_Witness ==
    \E s \in Sockets : \E t \in Sockets \ {s} :
        /\ req[s].op = "submit" /\ req[s].resp = "MATCH_FINISHED"
        /\ req[t].op = "submit" /\ req[t].pc = "finalMatch"
        /\ nWins[1] = 1

\* C2: winnerId of a match is null or one user id, and once it is a user id
\* it keeps that value for as long as the record exists.
C2_WinnerSetOnce ==
    /\ [](\A m \in MatchIds :
            match[m].hasId => match[m].winnerId \in {NoUser, match[m].p1, match[m].p2})
    /\ [][\A m \in MatchIds :
            (match[m].hasId /\ match[m].winnerId # NoUser /\ match'[m].hasId)
               => match'[m].winnerId = match[m].winnerId]_vars

\* a winner is recorded, a second setMatchWinner for the other player was
\* refused and the timeout callback has written after the win
C2_Witness ==
    /\ match[1].hasId /\ match[1].winnerId = "u1"
    /\ finishWrites[1] = 2
    /\ \E s \in Sockets : SocketUser(s) = "u2" /\ req[s].resp = "MATCH_FINISHED"

\* C3: the match goes from active to finished at most once, and only the
\* first trigger to apply it writes the finished status.
C3_SingleFinishingWrite == \A m \in MatchIds : finishWrites[m] <= 1

\* C4: a submission that passes every test but loses the race gets the outcome
\* "match already finished" (error code MATCH_FINISHED, not a wrong answer);
\* its step changes no match record, persists nothing, emits no game_over
\* and schedules no cleanup.
C4_RaceLoser ==
    [][\A s \in Sockets :
         (/\ req[s].op = "submit" /\ req[s].pc = "setWinner"
          /\ req'[s] # req[s]
          /\ match[req[s].mid].status # "active")
            => /\ req'[s].pc = "done" /\ req'[s].resp = "MATCH_FINISHED"
               /\ UNCHANGED <<match, db, gameOver, cleanupTimers, nWins>>]_vars

\* u2's accepted submission lost the race against u1's: u1 is the recorded
\* winner, persisted once, and u2's only game_over names u1
C4_Witness ==
    /\ req["s2"].op = "submit" /\ req["s2"].resp = "MATCH_FINISHED"
    /\ match[1].winnerId = "u1" /\ Len(db[1]) = 1 /\ db[1][1].winnerId = "u1"
    /\ Len(gameOver["s2"]) = 1 /\ gameOver["s2"][1].winnerId = "u1"

\* C5 as stated: a submission of B that arrives after A's winning submission
\* was completely processed is answered "match already finished", the answer
\* the race loser gets.
C5_LateSubmissionToldFinished ==
    \A s \in Sockets :
        (req[s].op = "submit" /\ req[s].pc = "done" /\ req[s].late # NoUser)
            => req[s].resp = "MATCH_FINISHED"

\* C5 amended: such a submission never reaches the judge or setMatchWinner,
\* so it changes nothing and A stays the recorded winner, but it is answered
\* MATCH_NOT_ACTIVE ("Match is not active") while the record exists, and
\* MATCH_NOT_FOUND or NOT_IN_MATCH once the cleanup has run: never
\* MATCH_FINISHED.
C5_LateSubmissionRejected ==
    \A s \in Sockets :
        (req[s].op = "submit" /\ req[s].late # NoUser)
            => /\ req[s].pc \in {"getMatch", "done"}
               /\ req[s].pc = "done"
                    => req[s].resp \in {"MATCH_NOT_ACTIVE", "MATCH_NOT_FOUND", "NOT_IN_MATCH"}
               /\ match[1].hasId
                    => /\ match[1].status = "finished"
                       /\ match[1].winnerId = req[s].late
               /\ nWins[1] = 1

\* u2 submitted after u1's win was persisted and announced, and was told
\* that the match is not active
C5_Witness ==
    /\ req["s2"].op = "submit" /\ req["s2"].pc = "done" /\ req["s2"].late = "u1"
    /\ req["s2"].resp = "MATCH_NOT_ACTIVE"
    /\ match[1].winnerId = "u1" /\ Len(db[1]) = 1

(***************************************************************************)
(* Ratings (SpecElo)                                                       *)
(***************************************************************************)
\* round(32 * (1 - 1/(1 + 10^(d/400)))) for d = loserRating - winnerRating,
\* worked out by hand for the rating differences of EloSet:
\*   d = -800: 32 * (1 - 1/1.01) = 0.317  d = -400: 32 * (1 - 1/1.1) = 2.909
\*   d = 0: 32 * 0.5 = 16   d = 400: 32 * 10/11 = 29.09   d = 800: 32 * 100/101 = 31.68
ExpectedDelta(d) ==
    CASE d = -800 -> 0
      [] d = -400 -> 3
      [] d = 0 -> 16
      [] d = 400 -> 29
      [] d = 800 -> 32

\* C6: after a win by accepted submission the winner's game_over carries
\* winnerRating + delta and the loser's loserRating - delta, with
\* delta = round(32 * (1 - 1/(1 + 10^((loserRating - winnerRating)/400)))),
\* which is 16 for 1200 against 1200 (1216 and 1184).
C6_EloDelta ==
    \A s \in Sockets : \A i \in 1..Len(gameOver[s]) :
        LET e == gameOver[s][i]
            w == e.winnerId
            l == Other(match[e.matchId], w)
            delta == ExpectedDelta(userElo[l] - userElo[w])
        IN /\ e.reason = "You solved it first!"
                => /\ SocketUser(s) = w /\ e.newElo = userElo[w] + delta
                   /\ (userElo[w] = 1200 /\ userElo[l] = 1200) => e.newElo = 1216
           /\ e.reason = "Opponent solved first"
                => /\ SocketUser(s) = l /\ e.newElo = userElo[l] - delta
                   /\ (userElo[w] = 1200 /\ userElo[l] = 1200) => e.newElo = 1184

\* u1 (1200) beat the higher rated u2 (1600) by submission: both were told
\* their new ratings, 1229 and 1571
C6_Witness ==
    /\ userElo["u1"] = 1200 /\ userElo["u2"] = 1600
    /\ \E i \in 1..Len(gameOver["s1"]) :
          gameOver["s1"][i].reason = "You solved it first!" /\ gameOver["s1"][i].newElo = 1229
    /\ \E i \in 1..Len(gameOver["s2"]) :
          gameOver["s2"][i].reason = "Opponent solved first" /\ gameOver["s2"][i].newElo = 1571

(***************************************************************************)
(* The match timeout (SpecArb)                                             *)
(***************************************************************************)
\* C7: a timeout callback that finds the match active leaves it finished with
\* winnerId null and sends a game_over with winnerId null to the room; one
\* that finds it not active changes nothing and sends nothing.
C7_TimeoutOutcome ==
    [][\A m \in MatchIds :
         /\ (timer[m] = "write" /\ timer'[m] = "done")
              => /\ match'[m].status = "finished" /\ match'[m].winnerId = NoUser
                 /\ \A s \in InRoom(m) :
                      /\ Len(gameOver'[s]) = Len(gameOver[s]) + 1
                      /\ gameOver'[s][Len(gameOver'[s])].winnerId = NoUser
         /\ (timer[m] = "pending" /\ timer'[m] = "done")
              => UNCHANGED <<match, gameOver>>]_vars

\* C8: once a submission, forfeit or disconnect has finished the match, the
\* timeout callback writes nothing to the record and emits no game_over.
C8_TimeoutAfterFinish ==
    [][\A m \in MatchIds :
         (match[m].status = "finished" /\ nWins[m] = 1)
            => ~(timer[m] = "write" /\ timer'[m] = "done")]_vars

(***************************************************************************)
(* Matchmaking (SpecQueue)                                                 *)
(***************************************************************************)
\* the matches of which u is a participant and whose status is active
ActiveMatchesOf(u) ==
    {m \in MatchIds : match[m].hasId /\ match[m].status = "active"
                      /\ u \in {match[m].p1, match[m].p2}}

\* C9: every match record created with status active, by createMatch or by
\* createBotMatch, has a match-timeout callback registered once the call that
\* created it is over (so that the timeout can finish it when nobody else does).
C9_EveryActiveMatchHasTimeout ==
    \A m \in MatchIds :
        (match[m].hasId /\ match[m].status = "active" /\ tick.mid # m)
            => timer[m] # "none"

\* C10: each userId is a participant of at most one match whose status is
\* active.
C10_OneActiveMatchPerUser == \A u \in Users : Cardinality(ActiveMatchesOf(u)) <= 1

\* the number of queue entries of user u
EntriesOf(u) == Cardinality({i \in 1..Len(queue) : queue[i].userId = u})

\* C11: no userId occurs in more than one queue entry, whatever the
\* interleaving of the enqueue calls of join_queue and of the scheduler's
\* re-enqueue with each other.
C11_NoDuplicateEntries == \A u \in Users : EntriesOf(u) <= 1

(***************************************************************************)
(* RedisService.enqueue on its own (SpecEnqueue): joinQueue has reached    *)
(* its call of enqueue(entry) on one or both of s1 (u1) and s2 (u2), the   *)
(* queue is any list of at most MaxQueueLen entries, and nothing else      *)
(* runs.                                                                   *)
(***************************************************************************)
MaxQueueLen == 3

QueueEntries == {QueueEntry(SocketUser(s), s, 1200) : s \in Sockets}
Queues(n) == UNION {[1..k -> QueueEntries] : k \in 0..n}

\* every variable but queue, req and tick, with the sockets of S connected
\* (one socket per user) and the ratings drawn from elos
InitConnectedWith(S, elos) ==
    /\ match = [m \in MatchIds |-> NoMatch]
    /\ userMatch = [u \in AllIds |-> NoMatchId]
    /\ userSocket = [u \in Users |->
                       IF \E s \in S : SocketUser(s) = u
                       THEN CHOOSE s \in S : SocketUser(s) = u
                       ELSE NoSocket]
    /\ sock = [s \in Sockets |->
                 IF s \in S THEN [NoSock EXCEPT !.used = TRUE, !.connected = TRUE]
                 ELSE NoSock]
    /\ userElo \in elos
    /\ nextMatchId = 1
    /\ disc = [s \in Sockets |-> IdleDisc]
    /\ conn = [s \in Sockets |-> IdleConn]
    /\ timer = [m \in MatchIds |-> "none"]
    /\ cleanupTimers = [m \in MatchIds |-> "none"]
    /\ activeBots = {}
    /\ bot = [m \in MatchIds |-> NoBot]
    /\ events = [s \in Sockets |-> {}]
    /\ gameOver = [s \in Sockets |-> <<>>]
    /\ db = [m \in MatchIds |-> <<>>]
    /\ nWins = [m \in MatchIds |-> 0]
    /\ finishWrites = [m \in MatchIds |-> 0]
    /\ nReq = MaxRequests

\* s1 (u1) and s2 (u2) connected, both rated 1200
InitConnected == InitConnectedWith(ArbSockets, {[u \in Users |-> 1200]})

InitEnqueue ==
    /\ InitConnected
    /\ queue \in Queues(MaxQueueLen)
    /\ isProcessing = FALSE
    /\ tick = IdleTick
    /\ req \in {r \in [Sockets -> {IdleReq, [IdleReq EXCEPT !.op = "join", !.pc = "enqueueCheck"]}] :
                  \A s \in Sockets \ ArbSockets : r[s] = IdleReq}

NextEnqueue == \E s \in ArbSockets : JoinEnqueueCheck(s) \/ JoinRpush(s)

SpecEnqueue == InitEnqueue /\ [][NextEnqueue]_vars

\* C12: enqueue(entry) on a queue that holds an entry of the same userId
\* returns -1 and leaves the queue as it is; otherwise it appends the entry
\* at the tail, the length grows by one, and the value returned is the
\* entry's 1-indexed position: the new length, and getQueuePosition(userId).
C12_Enqueue ==
    [][\A s \in Sockets :
         LET u == SocketUser(s) IN
         /\ (req[s].pc = "enqueueCheck" /\ req'[s] # req[s] /\ isUserInQueue(queue, u))
              => /\ req'[s].pc = "done" /\ req'[s].position = -1
                 /\ queue' = queue
         /\ (req[s].pc = "enqueueCheck" /\ req'[s] # req[s] /\ ~isUserInQueue(queue, u))
              => /\ req'[s].pc = "rpush"
                 /\ queue' = queue
         /\ (req[s].pc = "rpush" /\ req'[s] # req[s])
              => /\ Len(queue') = Len(queue) + 1
                 /\ SubSeq(queue', 1, Len(queue)) = queue
                 /\ queue'[Len(queue')].userId = u /\ queue'[Len(queue')].socketId = s
                 /\ req'[s].pc = "done"
                 /\ req'[s].position = Len(queue')
                 /\ req'[s].position = getQueuePosition(queue', u)]_vars

\* u1, already queued, got the duplicate signal; u2 was appended third and
\* was returned position 3
C12_Witness ==
    /\ req["s1"].pc = "done" /\ req["s1"].position = -1 /\ isUserInQueue(queue, "u1")
    /\ req["s2"].pc = "done" /\ req["s2"].position = 3
    /\ Len(queue) = 3 /\ queue[3].userId = "u2"

(***************************************************************************)
(* Leaving the queue (SpecLeave): u1 (s1) and u2 (s2) have joined the      *)
(* queue, in that order; from there the scheduler runs, time passes, and   *)
(* the two leave the queue or disconnect.  Nobody joins.                   *)
(***************************************************************************)
InitLeave ==
    /\ InitConnected
    /\ queue = <<QueueEntry("u1", "s1", 1200), QueueEntry("u2", "s2", 1200)>>
    /\ isProcessing = FALSE
    /\ tick = IdleTick
    /\ req = [s \in Sockets |->
                IF s \in ArbSockets
                THEN [IdleReq EXCEPT !.op = "join", !.resp = "queue_joined",
                                     !.position = IF s = "s1" THEN 1 ELSE 2]
                ELSE IdleReq]

NextLeave ==
    \/ Scheduler
    \/ \E i \in 1..Len(queue) : Age(i)
    \/ \E s \in ArbSockets : LeaveQueue(s) \/ Disconnection(s)

SpecLeave == InitLeave /\ [][NextLeave]_vars

\* the entries of q other than those of user u, in the order of q
Without(q, u) == SelectSeq(q, LAMBDA e : e.userId # u)

\* C13: dequeue(userId) removes exactly the entry of userId, keeps the order
\* of the others and tells whether it found one; and once a dequeue(userId)
\* of leave_queue and a popTwoPlayers running at the same time (its push-back
\* of a single popped entry included) are both over, userId is not in the
\* queue.
C13_DequeueAgainstPop ==
    [][/\ \A s \in Sockets :
            (req'[s].op = "leave" /\ req'[s] # req[s])
               => /\ queue' = Without(queue, SocketUser(s))
                  /\ (req'[s].resp = "queue_left") <=> isUserInQueue(queue, SocketUser(s))
       /\ (tick.pc = "lpush" /\ tick'.pc = "idle")
            => \A s \in Sockets :
                 (/\ req[s].op = "leave" /\ req[s].pc = "done"
                  /\ SocketUser(s) = tick.players[1].userId)
                    => ~isUserInQueue(queue', SocketUser(s))]_vars

(***************************************************************************)
(* RedisService.popTwoPlayers on its own (SpecPop): processQueue has       *)
(* reached its call of popTwoPlayers, the queue is any list of at most     *)
(* MaxQueueLen entries, and the only other writer is a join_queue of s1    *)
(* or s2 that is about to append its entry.                                *)
(***************************************************************************)
InitPop ==
    /\ InitConnected
    /\ queue \in Queues(MaxQueueLen)
    /\ isProcessing = TRUE
    /\ tick = [IdleTick EXCEPT !.pc = "popTwoPlayers"]
    /\ req \in {r \in [Sockets -> {IdleReq, [IdleReq EXCEPT !.op = "join", !.pc = "rpush"]}] :
                  \A s \in Sockets \ ArbSockets : r[s] = IdleReq}

NextPop ==
    \/ TickPopTwoPlayers
    \/ TickLpush
    \/ \E s \in ArbSockets : JoinRpush(s)

SpecPop == InitPop /\ [][NextPop]_vars

\* C14: popTwoPlayers removes and returns the two oldest entries, in queue
\* order; with fewer than two entries it returns none (no match is started)
\* and the queue keeps its entries in their order: an entry popped alone is
\* put back at the head.
C14_PopTwoPlayers ==
    [][/\ (tick.pc = "popTwoPlayers" /\ tick' # tick)
            => /\ Len(queue) >= 2
                    => /\ queue' = SubSeq(queue, 3, Len(queue))
                       /\ tick'.pc # "lpush"
                       /\ (sock[queue[1].socketId].connected /\ sock[queue[2].socketId].connected)
                             => tick'.players = <<queue[1], queue[2]>>
               /\ Len(queue) = 1
                    => /\ queue' = <<>>
                       /\ tick'.pc = "lpush" /\ tick'.players = queue
                       /\ nextMatchId' = nextMatchId
               /\ Len(queue) = 0
                    => queue' = queue /\ tick'.pc = "idle" /\ nextMatchId' = nextMatchId
       /\ (tick.pc = "lpush" /\ tick' # tick)
            => /\ queue' = tick.players \o queue
               /\ tick'.pc = "idle"
               /\ UNCHANGED <<match, nextMatchId>>]_vars

\* u1 was popped alone, u2 was appended (at position 1) while u1 was out of
\* the list, and the push-back put u1 in front of u2
C14_Witness ==
    /\ tick.pc = "idle"
    /\ Len(queue) = 2 /\ queue[1].userId = "u1" /\ queue[2].userId = "u2"
    /\ req["s2"].pc = "done" /\ req["s2"].position = 1

(***************************************************************************)
(* Pairing order (SpecFifo): u1, u2, u3 and u4 are connected and have      *)
(* joined the queue in that order; nobody leaves, disconnects or waits     *)
(* long enough for a bot, and the scheduler ticks.                         *)
(***************************************************************************)
FifoSockets == {"s1", "s2", "s4", "s5"}
FifoOrder == <<"s1", "s2", "s4", "s5">>

\* the place of user u in the order of the joins
Rank(u) == CHOOSE i \in 1..Len(FifoOrder) : SocketUser(FifoOrder[i]) = u

InitFifo ==
    /\ InitConnectedWith(FifoSockets, [Users -> EloSet])
    /\ queue = [i \in 1..Len(FifoOrder) |->
                  QueueEntry(SocketUser(FifoOrder[i]), FifoOrder[i],
                             userElo[SocketUser(FifoOrder[i])])]
    /\ isProcessing = FALSE
    /\ tick = IdleTick
    /\ req = [s \in Sockets |->
                IF s \in FifoSockets
                THEN [IdleReq EXCEPT !.op = "join", !.resp = "queue_joined",
                                     !.position = Rank(SocketUser(s))]
                ELSE IdleReq]

NextFifo ==
    \/ TickStart
    \/ TickGetQueueLength
    \/ TickGetQueue
    \/ TickPopTwoPlayers
    \/ \E found \in BOOLEAN : TickPairProblem(found)
    \/ TickEnqueueCheck
    \/ TickRpush
    \/ TickPairHset
    \/ TickPairPtr1
    \/ TickPairPtr2

SpecFifo == InitFifo /\ [][NextFifo]_vars

\* the pair the tick is making a match of is older than everyone waiting,
\* and is (u1, u2) for the first match formed, (u3, u4) for the second
PairedInOrder ==
    LET a == tick.players[1].userId
        b == tick.players[2].userId
        formed == Cardinality({m \in MatchIds : match[m].hasId})
    IN /\ Rank(a) < Rank(b)
       /\ \A i \in 1..Len(queue) : Rank(b) < Rank(queue[i].userId)
       /\ formed = 0 => (a = "u1" /\ b = "u2")
       /\ formed = 1 => (a = "u3" /\ b = "u4")

\* C15 as stated: with u1..u4 enqueued in that order, all connections live,
\* nobody leaving or reaching the bot threshold, the first tick that forms a
\* match pairs u1 with u2 and the next u3 with u4; nobody is matched before a
\* user who was enqueued earlier and is still waiting.
C15_PairingFollowsEnqueueOrder ==
    [][(tick.pc = "pairHset" /\ tick'.pc = "pairPtr1") => PairedInOrder]_vars

(***************************************************************************)
(* Single-flight ticks (SpecQueue).                                        *)
(***************************************************************************)
\* C16: at no time are two executions of processQueue's body in progress:
\* the isProcessing flag is set exactly while the one body the service runs is
\* between its first line and its finally block, and a body begins only when
\* none is in progress (a tick that fires meanwhile is TickSkip, which reads
\* and changes nothing).
C16_SingleFlight ==
    /\ [](isProcessing <=> tick.pc # "idle")
    /\ [][(tick' # tick /\ tick'.pc = "getQueueLength")
            => (~isProcessing /\ tick.pc = "idle")]_vars

\* a tick is between its pop and its match creation, where the interval
\* fires again
C16_Witness ==
    /\ isProcessing
    /\ tick.pc = "pairHset"
    /\ ENABLED TickSkip
    /\ ~ENABLED TickStart

(***************************************************************************)
(* Popped pairs with a dead connection (SpecLeave).                        *)
(***************************************************************************)
\* the tick is re-queueing the live player of a pair it dropped (tick.mid is
\* set only when createMatch was entered)
RequeueOfDroppedPair ==
    /\ tick.pc \in {"enqueueCheck", "rpush"}
    /\ tick.mid = NoMatchId

\* C17: when MULTI{LPOP, LPOP} returns a pair with a player whose socket is
\* not connected, no match id is taken and no match record written: only
\* the players with a connected socket are handed to enqueue, none if both
\* are dead; the re-queue changes the queue by at most appending that
\* player, writes no match, and when the tick ends the player is in the
\* queue.
C17_HalfDeadPair ==
    /\ [][(/\ tick.pc = "popTwoPlayers" /\ tick' # tick
           /\ Len(queue) >= 2
           /\ \E j \in 1..2 : ~sock[queue[j].socketId].connected)
            => /\ match' = match /\ nextMatchId' = nextMatchId
               /\ tick'.mid = NoMatchId
               /\ tick'.pc = IF \E j \in 1..2 : sock[queue[j].socketId].connected
                             THEN "enqueueCheck" ELSE "idle"
               /\ \A j \in 1..2 :
                     sock[queue[j].socketId].connected
                       <=> (\E i \in 1..Len(tick'.players) : tick'.players[i] = queue[j])
               /\ queue' = SubSeq(queue, 3, Len(queue))]_vars
    /\ [][(RequeueOfDroppedPair /\ tick' # tick)
            => /\ match' = match /\ nextMatchId' = nextMatchId
               /\ queue' \in {queue, Append(queue, tick.players[1])}
               /\ tick'.pc = "idle"
                    => isUserInQueue(queue', tick.players[1].userId)]_vars
    /\ [](RequeueOfDroppedPair => Len(tick.players) = 1)

\* u1 and u2 were popped, u1's socket had gone, and the tick is about to
\* append u2 again
C17_Witness ==
    /\ RequeueOfDroppedPair
    /\ tick.pc = "rpush"
    /\ tick.players[1].socketId = "s2"
    /\ ~sock["s1"].connected
    /\ match = [m \in MatchIds |-> NoMatch]

(***************************************************************************)
(* Bot delegation (SpecQueue).                                             *)
(***************************************************************************)
\* the record of match m is an active match of user u against a bot
BotMatchOf(rec, u) ==
    /\ rec.hasId /\ rec.status = "active" /\ rec.winnerId = NoUser
    /\ rec.p1 = u /\ IsBot(rec.p2)

ProblemTestCases == {[index |-> i, isHidden |-> (i >= 2)] : i \in 0..(MaxTestCases - 1)}

\* problem.testCases.filter((tc) => !tc.isHidden)
VisibleTestCases(testCases) == {tc \in testCases : ~tc.isHidden}

\* the testCases of a match_found payload: createMatch filters them,
\* createBotMatch sends problem.testCases as it is
PayloadTestCases(e) ==
    IF e.code = "filtered" THEN VisibleTestCases(ProblemTestCases) ELSE ProblemTestCases

\* C19: no match_found payload delivered to a socket contains a test case
\* marked hidden.
C19_NoHiddenTestCase ==
    \A s \in Sockets : \A e \in events[s] :
        e.type = "match_found" => \A tc \in PayloadTestCases(e) : ~tc.isHidden

(***************************************************************************)
(* A bot match on its own (SpecBot): createBotMatch has stored match 1 of  *)
(* u1 (on s1) against a bot, whose failure was rolled at construction, and *)
(* has scheduled bot.start.                                                *)
(***************************************************************************)
InitBot ==
    /\ queue = <<>>
    /\ userElo \in [Users -> EloSet]
    /\ match = [m \in MatchIds |->
                  IF m = 1
                  THEN MatchState("u1", "s1", userElo["u1"], BotId(1), BotSocket, BotElo)
                  ELSE NoMatch]
    /\ userMatch = [u \in AllIds |-> IF u \in {"u1", BotId(1)} THEN 1 ELSE NoMatchId]
    /\ userSocket = [u \in Users |-> IF u = "u1" THEN "s1" ELSE NoSocket]
    /\ sock = [s \in Sockets |->
                 IF s = "s1"
                 THEN [used |-> TRUE, connected |-> TRUE, currentMatchId |-> 1, rooms |-> {1}]
                 ELSE NoSock]
    /\ nextMatchId = 2
    /\ isProcessing = FALSE
    /\ tick = IdleTick
    /\ req = [s \in Sockets |->
                IF s = "s1"
                THEN [IdleReq EXCEPT !.op = "join", !.resp = "queue_joined", !.position = 1]
                ELSE IdleReq]
    /\ disc = [s \in Sockets |-> IdleDisc]
    /\ conn = [s \in Sockets |-> IdleConn]
    /\ timer = [m \in MatchIds |-> "none"]
    /\ cleanupTimers = [m \in MatchIds |-> "none"]
    /\ activeBots = {1}
    /\ \E shouldFail \in BOOLEAN :
       \E failurePoint \in IF shouldFail THEN FailurePoints ELSE {NoFailurePoint} :
          bot = [m \in MatchIds |->
                   IF m = 1
                   THEN [NoBot EXCEPT !.state = "scheduled", !.shouldFail = shouldFail,
                                      !.failurePoint = failurePoint]
                   ELSE NoBot]
    /\ events = [s \in Sockets |->
                   IF s = "s1"
                   THEN {[type |-> "match_found", code |-> "unfiltered", mid |-> 1]}
                   ELSE {}]
    /\ gameOver = [s \in Sockets |-> <<>>]
    /\ db = [m \in MatchIds |-> <<>>]
    /\ nWins = [m \in MatchIds |-> 0]
    /\ finishWrites = [m \in MatchIds |-> 0]
    /\ nReq = MaxRequests

NextBot == Bots

SpecBot == InitBot /\ [][NextBot]_vars

\* the failure events bot b has emitted
FailuresOf(b) == {i \in 1..Len(b.emitted) : b.emitted[i].status = "Wrong Answer"}

\* C20: a bot rolled to fail emits one failure event and nothing after it,
\* calls onComplete at most once, with 'failed', and never emits "Accepted"
\* nor hands 'success' to a delayed completion.
C20_FailingBotStops ==
    \A m \in MatchIds :
        bot[m].shouldFail =>
            /\ Cardinality(FailuresOf(bot[m])) <= 1
            /\ \A i \in FailuresOf(bot[m]) : i = Len(bot[m].emitted)
            /\ Len(bot[m].completed) <= 1
            /\ \A i \in 1..Len(bot[m].completed) : bot[m].completed[i] = "failed"
            /\ \A i \in 1..Len(bot[m].completions) : bot[m].completions[i] = "failed"
            /\ \A i \in 1..Len(bot[m].emitted) : bot[m].emitted[i].status # "Accepted"

(***************************************************************************)
(* A bot match with its human player (SpecBotGame): u1, both rated as the  *)
(* specification's scenario, submits, forfeits or disconnects while the    *)
(* bot runs its timeline.                                                  *)
(***************************************************************************)
InitBotGame == InitBot /\ userElo = [u \in Users |-> 1200]

\* the cleanup callback of a finished match (a bot match has no timeout)
Cleanup == \E m \in MatchIds : CleanupSockets(m) \/ CleanupDelete(m)

NextBotGame ==
    \/ Bots
    \/ Cleanup
    \/ GameRequests("s1")
    \/ Disconnection("s1")

SpecBotGame == InitBotGame /\ [][NextBotGame]_vars

\* C21: once the record of a bot match is finished by the human side (an
\* accepted submission, a forfeit or a disconnect), the bot emits no
\* opponent_progress event and does not invoke its completion callback.
C21_BotSilentAfterFinish ==
    [][\A m \in MatchIds :
          (/\ bot[m].state # "none"
           /\ match[m].hasId /\ match[m].status = "finished"
           /\ \A i \in 1..Len(bot[m].completed) : bot[m].completed[i] # "success")
            => /\ bot'[m].emitted = bot[m].emitted
               /\ bot'[m].completed = bot[m].completed]_vars

SocketIn(rec, u) == IF rec.p1 = u THEN rec.p1sock ELSE rec.p2sock

\* C23: the setMatchWinner of a participant's forfeit finishes an active
\* record with the other participant as winner, never the forfeiter, and the
\* handler then persists one "forfeit" result, delivers a game_over naming
\* that winner to the winner's and the forfeiter's connection (each if still
\* connected) and sets the cleanup timer; a forfeit whose setMatchWinner
\* finds the record not active returns at once and writes, persists, sends
\* and schedules nothing.
C23_Forfeit ==
    /\ [][\A s \in ArbSockets :
            (req[s].op = "forfeit" /\ req[s].pc = "setWinner" /\ req'[s] # req[s])
              => LET m == req[s].mid
                     u == SocketUser(s)
                 IN IF match[m].hasId /\ match[m].status = "active"
                    THEN /\ match'[m].status = "finished"
                         /\ match'[m].winnerId \in {match[m].p1, match[m].p2} \ {u}
                         /\ req'[s].pc = "save"
                    ELSE /\ match' = match /\ db' = db /\ gameOver' = gameOver
                         /\ cleanupTimers' = cleanupTimers
                         /\ req'[s].pc = "done"]_vars
    /\ [][\A s \in ArbSockets :
            (req[s].op = "forfeit" /\ req[s].pc = "save" /\ req'[s] # req[s])
              => LET m == req[s].mid
                     u == SocketUser(s)
                     w == CHOOSE x \in {req[s].snap.p1, req[s].snap.p2} : x # u
                     ws == SocketIn(req[s].snap, w)
                 IN /\ Len(db'[m]) = Len(db[m]) + 1
                    /\ db'[m][Len(db'[m])].winnerId = w
                    /\ db'[m][Len(db'[m])].loserId = u
                    /\ db'[m][Len(db'[m])].result = "forfeit"
                    /\ cleanupTimers'[m] = "pending"
                    /\ \A x \in {s, ws} :
                          IF sock[x].connected
                          THEN /\ Len(gameOver'[x]) = Len(gameOver[x]) + 1
                               /\ gameOver'[x][Len(gameOver'[x])].winnerId = w
                          ELSE gameOver'[x] = gameOver[x]
                    /\ req'[s].pc = "done"]_vars
    /\ [](\A s \in ArbSockets :
            (req[s].op = "forfeit" /\ req[s].pc = "save")
              => /\ match[req[s].mid].hasId => match[req[s].mid].status = "finished"
                 /\ req[s].winnerId # SocketUser(s))

\* u1 forfeited the active match: u2 is the winner and both were told
C23_Witness ==
    /\ req["s1"].op = "forfeit" /\ req["s1"].resp = "game_over"
    /\ match[1].status = "finished" /\ match[1].winnerId = "u2"
    /\ Len(db[1]) = 1 /\ db[1][1].result = "forfeit" /\ db[1][1].winnerId = "u2"
    /\ Len(gameOver["s1"]) = 1 /\ gameOver["s1"][1].reason = "You forfeited"
    /\ Len(gameOver["s2"]) = 1 /\ gameOver["s2"][1].reason = "Opponent forfeited"
    /\ cleanupTimers[1] = "pending"

(***************************************************************************)
(* Disconnects of a paired match (SpecDisc): the players of match 1        *)
(* disconnect, u2 may forfeit, the match timeout fires, and u1 may open a  *)
(* second connection (s3), so that the disconnect handler can run twice    *)
(* for u1.                                                                 *)
(***************************************************************************)
NextDisc ==
    \/ Connection("s3")
    \/ \E s \in ArbSockets : Disconnection(s)
    \/ \E m \in MatchIds : TimeoutRead(m) \/ TimeoutWrite(m)
    \/ ForfeitStart("s2") \/ ForfeitGetMatch("s2") \/ ForfeitSetWinner("s2") \/ ForfeitSave("s2")

SpecDisc == InitArb /\ [][NextDisc]_vars

\* the game_over events of log that name user u as winner
WinsTold(log, u) == {i \in 1..Len(log) : log[i].winnerId = u}

\* C24 as stated: when the disconnect handler of a participant has read the
\* match as active, its setMatchWinner leaves the match finished with the
\* other side as winner, and the other side's connection, if it is still
\* there, has received exactly one game_over naming the other side.
C24_DisconnectMakesOtherSideWin ==
    [][\A s \in Sockets :
          (disc[s].pc = "setWinner" /\ disc'[s] # disc[s])
            => LET m == disc[s].mid
                   w == disc[s].winnerId
                   ws == SocketIn(disc[s].snap, w)
               IN /\ match'[m].status = "finished"
                  /\ match'[m].winnerId = w
                  /\ (ws \in Sockets /\ sock[ws].connected)
                       => Cardinality(WinsTold(gameOver'[ws], w)) = 1]_vars

\* C24 amended: the setMatchWinner of the disconnect handler finishes a
\* record that is still active with the other side as winner, and every
\* connection then in the match channel receives one game_over naming that
\* winner; when another finishing event, or an earlier run of the disconnect
\* handler, came first, it changes no record and sends nothing.  No
\* connection ever receives two game_over events naming its own user.
C24_DisconnectIfFirst ==
    /\ [][\A s \in Sockets :
            (disc[s].pc = "setWinner" /\ disc'[s] # disc[s])
              => LET m == disc[s].mid
                     u == SocketUser(s)
                 IN IF match[m].hasId /\ match[m].status = "active"
                    THEN /\ match'[m].status = "finished"
                         /\ match'[m].winnerId \in {match[m].p1, match[m].p2} \ {u}
                         /\ \A x \in Sockets :
                               IF sock[x].connected /\ m \in sock[x].rooms
                               THEN /\ Len(gameOver'[x]) = Len(gameOver[x]) + 1
                                    /\ gameOver'[x][Len(gameOver'[x])].winnerId
                                         = match'[m].winnerId
                               ELSE gameOver'[x] = gameOver[x]
                    ELSE match' = match /\ gameOver' = gameOver]_vars
    /\ [](\A x \in Sockets : Cardinality(WinsTold(gameOver[x], SocketUser(x))) <= 1)

\* both connections of u1 have gone and both disconnect handlers have run;
\* u2 won by the first and was told once
C24_Witness ==
    /\ ~sock["s1"].connected /\ sock["s3"].used /\ ~sock["s3"].connected
    /\ disc["s1"].pc = "done" /\ disc["s3"].pc = "done"
    /\ match[1].status = "finished" /\ match[1].winnerId = "u2"
    /\ nWins[1] = 1
    /\ Len(gameOver["s2"]) = 1
    /\ gameOver["s2"][1].reason = "Opponent disconnected"
    /\ gameOver["s2"][1].winnerId = "u2"

(***************************************************************************)
(* Rejoin (SpecRejoin): match 1 of u1 (on s1) against u2 (on s2) is        *)
(* active.  u1 may open a new connection (s3) and u3, who plays in no      *)
(* match, may connect (s4); both send rejoin_match for any match id, while *)
(* the connections of u1 close.                                            *)
(***************************************************************************)
RejoinSockets == {"s3", "s4"}

NextRejoin ==
    \/ \E s \in RejoinSockets :
          \/ Connect(s)
          \/ ConnSetUserSocket(s)
          \/ ConnGetUserMatchId(s)
          \/ ConnGetMatch(s)
          \/ ConnUpdateMatchSocketId(s)
          \/ RejoinRequests(s)
    \/ \E s \in {"s1", "s3"} : Disconnection(s)

SpecRejoin == InitArb /\ [][NextRejoin]_vars

\* C25: a rejoin_match is never answered with a match_found payload when
\* the match it names is missing or not active at the time of the answer.
C25_NoStaleMatchFound ==
    [][\A s \in Sockets :
          (req[s].op = "rejoin" /\ req[s].pc # "done" /\ req'[s].resp = "match_found")
            => /\ match[req[s].mid].hasId
               /\ match[req[s].mid].status = "active"]_vars

\* the user of socket s is no player of the record
Outsider(rec, s) == rec.hasId /\ rec.p1 # SocketUser(s) /\ rec.p2 # SocketUser(s)

\* C26: a rejoin_match of a user who is no player of the named match is
\* answered NOT_PARTICIPANT at its first step, which changes no room, no match
\* record and sends no event; the user's socket is never in the match's room
\* and never holds a match_found of that match.
C26_OutsiderRejected ==
    /\ [](\A s \in Sockets : \A m \in MatchIds :
            Outsider(match[m], s)
              => /\ m \notin sock[s].rooms
                 /\ \A e \in events[s] : ~(e.type = "match_found" /\ e.mid = m)
                 /\ match[m].p1sock # s /\ match[m].p2sock # s)
    /\ [][\A s \in Sockets :
            (/\ req[s].op = "rejoin" /\ req[s].pc = "getMatch" /\ req'[s] # req[s]
             /\ Outsider(match[req[s].mid], s))
              => /\ req'[s].pc = "done" /\ req'[s].resp = "NOT_PARTICIPANT"
                 /\ sock' = sock /\ match' = match /\ events' = events
                 /\ userMatch' = userMatch /\ userSocket' = userSocket]_vars

C26_Witness ==
    /\ req["s4"].op = "rejoin" /\ req["s4"].resp = "NOT_PARTICIPANT"
    /\ match[1].status = "active" /\ ~match[2].hasId
    /\ sock["s4"].connected /\ sock["s4"].rooms = {}

\* C27: the disconnect handler of a connection whose user already has
\* another live connection leaves the user's active match active, so that a
\* rejoin_match on the new connection can re-deliver it.
C27_ReplacedConnectionKeepsMatch ==
    [][\A s \in Sockets : \A n \in Sockets \ {s} : \A m \in MatchIds :
          (/\ SocketUser(n) = SocketUser(s) /\ sock[n].connected
           /\ disc'[s] # disc[s]
           /\ match[m].hasId /\ match[m].status = "active"
           /\ SocketUser(s) \in {match[m].p1, match[m].p2})
            => match'[m].status = "active"]_vars

\* C28: a submit_code or forfeit that finds its match missing or not active
\* ends at that step with a response to the sender, and leaves the queue and
\* every match record unchanged.
C28_NoSilentDrop ==
    [][\A s \in Sockets :
          (/\ req[s].op \in {"submit", "forfeit"} /\ req[s].pc = "getMatch"
           /\ req'[s] # req[s]
           /\ ~match[req[s].mid].hasId \/ match[req[s].mid].status # "active")
            => /\ req'[s].pc = "done" /\ req'[s].resp # "none"
               /\ match' = match /\ queue' = queue]_vars

(***************************************************************************)
(* Submissions (SpecJudge): both players of the active match 1 submit      *)
(* code, any number of times, while the match timeout may fire.            *)
(***************************************************************************)
Submission(s) ==
    \/ SubmitStart(s)
    \/ SubmitGetMatch(s)
    \/ \E v \in Verdicts : SubmitJudge(s, v)
    \/ WinSetWinner(s)
    \/ WinFinalMatch(s)
    \/ WinSave(s)

SpecJudge ==
    /\ InitArb
    /\ [][
            \/ \E s \in ArbSockets : Submission(s)
            \/ \E m \in MatchIds : TimeoutRead(m) \/ TimeoutWrite(m)
         ]_vars

\* a test case on which the call to the sandbox failed or timed out
HasSandboxError(r) == \E i \in DOMAIN r : r[i] = "Judge0 Error"

InitStoreFail ==
    /\ InitConnectedWith(FifoSockets, {[u \in Users |-> 1200]})
    /\ queue = [i \in 1..Len(FifoOrder) |->
                  QueueEntry(SocketUser(FifoOrder[i]), FifoOrder[i],
                             userElo[SocketUser(FifoOrder[i])])]
    /\ isProcessing = FALSE
    /\ tick = IdleTick
    /\ req = [s \in Sockets |->
                IF s \in FifoSockets
                THEN [IdleReq EXCEPT !.op = "join", !.resp = "queue_joined",
                                     !.position = Rank(SocketUser(s))]
                ELSE IdleReq]

NextStoreFail ==
    \/ Scheduler
    \/ StoreFailures
    \/ \E i \in 1..Len(queue) : Age(i)

SpecStoreFail == InitStoreFail /\ [][NextStoreFail]_vars

\* C30: between two runs of the scheduler every connected user who was in
\* the queue is in the queue, or is in a match, or has received an error.
C30_NoPlayerLost ==
    \A s \in FifoSockets :
        (tick.pc = "idle" /\ Live(s))
          => \/ isUserInQueue(queue, SocketUser(s))
             \/ userMatch[SocketUser(s)] # NoMatchId
             \/ \E e \in events[s] : e.type = "error"

(***************************************************************************)
(* Winning (SpecWin): both players of the active match 1 submit code while *)
(* u1 opens a second connection s3, which handleReconnection attaches to   *)
(* the match.                                                              *)
(***************************************************************************)
SpecWin ==
    /\ InitArb
    /\ [][
            \/ \E s \in ArbSockets : Submission(s)
            \/ Connecting("s3")
         ]_vars

\* C31: the step of handlePotentialWin that emits game_over appends exactly
\* one game_over to every connection that is in the room of the match: the
\* winner's says "You solved it first!", the loser's "Opponent solved first".
C31_GameOverToAttached ==
    [][\A s \in Sockets :
          (req[s].op = "submit" /\ req[s].pc = "save" /\ req'[s] # req[s])
            => \A n \in InRoom(req[s].mid) :
                  /\ Len(gameOver'[n]) = Len(gameOver[n]) + 1
                  /\ gameOver'[n][Len(gameOver'[n])].winnerId = SocketUser(s)
                  /\ gameOver'[n][Len(gameOver'[n])].reason =
                        IF SocketUser(n) = SocketUser(s) THEN "You solved it first!"
                        ELSE "Opponent solved first"]_vars

\* the handlers that have won setMatchWinner for match m by an accepted
\* submission or a forfeit and have not yet called saveMatchToDatabase
Savers(m) ==
    {s \in Sockets : /\ req[s].op \in {"submit", "forfeit"}
                     /\ req[s].pc \in {"finalMatch", "save"}
                     /\ req[s].mid = m}

\* C32: a match has at most one saveMatchToDatabase call; the call is made
\* by the handler whose setMatchWinner made the match finished, and a handler
\* that won by accepted submission or forfeit goes on to make it: at any time
\* the calls made and the winning handlers still on their way add up to at
\* most one, and a winning handler ends only by making the call.
C32_PersistedOnce ==
    /\ [](\A m \in MatchIds :
            /\ Len(db[m]) + Cardinality(Savers(m)) <= 1
            /\ db[m] # <<>>
                 => /\ match[m].hasId => (match[m].status = "finished"
                                          /\ match[m].winnerId = db[m][1].winnerId)
                    /\ nWins[m] = 1)
    /\ [][\A s \in Sockets : \A m \in MatchIds :
            /\ (s \in Savers(m) /\ req'[s] # req[s])
                 => \/ (req[s].pc = "finalMatch" /\ req'[s].pc = "save" /\ db' = db)
                    \/ (req[s].pc = "save" /\ req'[s].pc = "done"
                        /\ Len(db'[m]) = 1
                        /\ db'[m][1].winnerId = req[s].winnerId)
            /\ db'[m] # db[m] => \E x \in Savers(m) : req[x].pc = "save" /\ req'[x] # req[x]
            /\ (/\ req[s].pc = "setWinner" /\ req[s].mid = m /\ req'[s] # req[s]
                /\ match[m].status = "active" /\ match'[m].status = "finished")
                 => s \in Savers(m)']_vars

C32_Witness ==
    /\ Len(db[1]) = 1 /\ db[1][1].result = "won"
    /\ \E s \in ArbSockets : req[s].resp = "game_over"
    /\ \E s \in ArbSockets : req[s].resp = "MATCH_FINISHED"

(***************************************************************************)
(* Stopping a bot (SpecBotStop): the bot of match 1 runs and stop() is     *)
(* called at any moment.                                                   *)
(***************************************************************************)
SpecBotStop == InitBot /\ [][Bots \/ BotStop(1)]_vars

\* C33: once stop() has been called the bot stays stopped, emits no
\* opponent_progress and passes no result to its completion callback, and
\* nothing it would have caused happens (no event, no match change).
C33_StoppedBotIsSilent ==
    [][\A m \in MatchIds :
          bot[m].isStopped
            => /\ bot'[m].isStopped
               /\ bot'[m].emitted = bot[m].emitted
               /\ bot'[m].completed = bot[m].completed
               /\ events' = events /\ match' = match /\ gameOver' = gameOver
               /\ db' = db]_vars

\* stop() was called between the final or failing checkpoint and its delayed
\* completion, and the completion has since run without effect
C33_Witness ==
    /\ bot[1].isStopped
    /\ bot[1].emitted # <<>>
    /\ bot[1].emitted[Len(bot[1].emitted)].status \in {"Accepted", "Wrong Answer"}
    /\ bot[1].completions = <<>> /\ bot[1].completed = <<>>
    /\ match[1].status = "active"

(***************************************************************************)
(* The scheduler under fairness (SpecStoreFailFair): a running tick is     *)
(* not suspended forever, every await of processQueue returns or throws.   *)
(***************************************************************************)
SpecStoreFailFair == SpecStoreFail /\ WF_vars(Scheduler \/ StoreFailures)

SpecRematch ==
    /\ InitArb
    /\ [][
            \/ ForfeitStart("s1") \/ ForfeitGetMatch("s1")
            \/ ForfeitSetWinner("s1") \/ ForfeitSave("s1")
            \/ \E s \in ArbSockets :
                  \/ JoinStart(s) \/ JoinGetUserMatchId(s) \/ JoinGetMatch(s)
                  \/ JoinIsUserInQueue(s) \/ JoinGetQueuePosition(s)
                  \/ JoinEnqueueCheck(s) \/ JoinRpush(s)
            \/ TickStart \/ TickGetQueueLength \/ TickGetQueue \/ TickPopTwoPlayers
            \/ \E found \in BOOLEAN : TickPairProblem(found)
            \/ TickEnqueueCheck \/ TickRpush
            \/ TickPairHset \/ TickPairPtr1 \/ TickPairPtr2
            \/ Cleanup
         ]_vars

\* redisService.createMatch has written the hash of match m and not yet
\* both user pointers
BeingCreated(m) ==
    tick.mid = m /\ tick.pc \in {"pairPtr1", "pairPtr2", "botPtr1", "botPtr2"}

\* C35: for every active match whose creation is complete, the
\* userId -> matchId pointer of each of its two participants is that match.
C35_PointersOfActiveMatch ==
    \A m \in MatchIds :
        (match[m].hasId /\ match[m].status = "active" /\ ~BeingCreated(m))
          => /\ userMatch[match[m].p1] = m
             /\ userMatch[match[m].p2] = m

\* C36: a step of the cleanup of match m leaves the current match of every
\* connection whose current match is another match unchanged, and changes
\* no other match record.
C36_CleanupFrame ==
    [][\A m \in MatchIds :
          cleanupTimers'[m] # cleanupTimers[m] /\ cleanupTimers[m] \in {"pending", "delete"}
            => /\ \A s \in Sockets :
                    sock[s].currentMatchId # m
                      => sock'[s].currentMatchId = sock[s].currentMatchId
               /\ \A k \in MatchIds \ {m} : match'[k] = match[k]]_vars

\* C37: no userId is in the queue and a participant of an active match at
\* the same time.
C37_QueuedOrPlaying ==
    \A u \in Users : ~(isUserInQueue(queue, u) /\ ActiveMatchesOf(u) # {})

\* C38: in every match record player1 and player2 are different users.
C38_DistinctPlayers ==
    \A m \in MatchIds : match[m].hasId => match[m].p1 # match[m].p2

\* C39: checkForBotMatches goes on to createBotMatch for a user only when
\* its dequeue removed an entry of that user from the queue.
C39_BotMatchOnlyIfDequeued ==
    [][(tick.pc = "botDequeue" /\ tick'.pc = "botProblem")
          => /\ isUserInQueue(queue, tick.snapshot[tick.i].userId)
             /\ Len(queue') = Len(queue) - 1]_vars

\* C40: the disconnect handler of a connection that is not the one the
\* pointer userId -> connection names leaves the pointer as it is, so that it
\* keeps naming the newer, live connection.
C40_OlderDisconnectKeepsRegistration ==
    [][\A s \in Sockets :
          (disc'[s] # disc[s] /\ userSocket[SocketUser(s)] # s)
            => userSocket'[SocketUser(s)] = userSocket[SocketUser(s)]]_vars

=============================================================================
